---- MODULE Spec2Model ----
(***************************************************************************)
(* Model of the document retrieval pipeline of lif3-backend:               *)
(*   RAGService.createDocumentChunks   (token-window chunker)              *)
(*   RAGService.semanticSearch         (threshold filter + re-ranking)     *)
(*   RAGService.calculateRelevance     (similarity / keyword blend)        *)
(*   RAGAIService.buildContext         (greedy token-bounded packing)      *)
(*                                                                         *)
(* Numbers: similarities, distances and thresholds are in hundredths       *)
(* (70 is 0.7); a relevance is kept as the exact numerator over            *)
(* 1000 * (number of query words).  A token is modelled by the number of   *)
(* non-whitespace characters it decodes to; 0 is a token that decodes to   *)
(* one whitespace character.                                               *)
(***************************************************************************)
EXTENDS Integers, Sequences, FiniteSets, TLC

VARIABLES
    \* ---- createDocumentChunks ----
    config,         \* [chunkSize, chunkOverlap] (RAGService.config)
    tokens,         \* this.tokenizer.encode(content)
    startIdx,       \* let startIdx
    chunkIndex,     \* let chunkIndex
    chunks,         \* const chunks: DocumentChunk[]
    windows,        \* history: every window the loop has taken, in order
    pc,             \* position of the chunking call: "loop" | "done" | "idle"
    \* ---- semanticSearch ----
    isInitialized,  \* RAGService.isInitialized
    query,          \* options.query (a sequence of characters)
    limit,          \* options.limit
    storeNeighbors, \* what the collection holds for the query, nearest first
    lastSearch,     \* the latest semanticSearch call: threshold, store answer, result
    prevSearch,     \* the call before it
    \* ---- buildContext ----
    ctxResults,     \* searchResults argument, each with the token count of its formatted text
    maxTokens,      \* maxTokens argument
    ctxOut,         \* { context, sources } returned, with the loop's tokenCount
    ctxPc,          \* "idle" | "called" | "done"
    \* ---- generateRAGResponse / analyzeDocument ----
    ragChunkTokens, \* token count of the formatted text of each stored chunk, by store position
    ragCall,        \* the latest generateRAGResponse / analyzeDocument call and its outcome
    \* ---- RAGService lifecycle and the vector store ----
    initState,      \* what onModuleInit did: fields set, failing step, whether it threw
    collection,     \* chunks held by the store collection: [id, documentId]
    nextDoc,        \* next fresh document id (crypto.randomUUID)
    lastOp,         \* the latest RAGService operation and its outcome
    \* ---- the lazily built embedding pipeline ----
    embeddingPipeline,  \* this.embeddingPipeline: 0 while unset, else the instance
    constructions,      \* calls of pipeline(...) so far
    successes,          \* calls of pipeline(...) that resolved
    callerPc,           \* where each caller of generateEmbedding stands
    callerInstance,     \* the instance each caller's pipeline(...) call is building
    usedInstances,      \* instances that embedded a text
    \* ---- generateDailyInsights ----
    taskState,          \* state of the promise of each analysis
    completionOrder,    \* the analyses in the order they settled
    joinState,          \* state of the Promise.all promise
    insights,           \* value of the Promise.all promise
    dailyOutcome,       \* what generateDailyInsights did
    insightGenerationCount, \* this.insightGenerationCount
    \* ---- document intake: cleaning, upload ----
    cleanInput,         \* the string handed to cleanContent
    cleanOut,           \* which cleanContent ran, its result, and the result of cleaning that
    \* ---- semanticSearch with metadata filters ----
    filterStore,        \* the stored chunks with their metadata, nearest first
    filterOptions,      \* options.filters and options.limit of the search request
    filterCall,         \* the latest filtered search: where clause sent, chunks returned
    \* ---- uploadDocument and processFile ----
    uploadReq,          \* the request: caller, file extension and size, name, DTO fields
    uploadPc,           \* where the request stands
    staging,            \* the staged temp files on disk
    fileOut,            \* the metadata processFile returned
    uploadOut           \* how the request ended and what it went through

chunkVars == <<config, tokens, startIdx, chunkIndex, chunks, windows, pc>>

searchVars == <<isInitialized, query, limit, storeNeighbors, lastSearch, prevSearch>>

ctxVars == <<ctxResults, maxTokens, ctxOut, ctxPc>>

ragVars == <<ragChunkTokens, ragCall>>

\* Variables of the components other than the chunker, the search and the
\* context assembler.
storeVars == <<initState, collection, nextDoc, lastOp>>

embedVars ==
    <<embeddingPipeline, constructions, successes, callerPc, callerInstance, usedInstances>>

insightVars ==
    <<taskState, completionOrder, joinState, insights, dailyOutcome, insightGenerationCount>>

cleanVars == <<cleanInput, cleanOut>>

filterVars == <<filterStore, filterOptions, filterCall>>

uploadVars == <<uploadReq, uploadPc, staging, fileOut, uploadOut>>

docVars == <<cleanVars, filterVars, uploadVars>>

sideVars == <<embedVars, insightVars, docVars>>

extVars == <<ragVars, storeVars, sideVars>>

vars == <<chunkVars, searchVars, ctxVars, extVars>>

\* ------------------------------------------------------------------------
\* Bounds
\* ------------------------------------------------------------------------
MaxTokens == 5          \* longest token sequence enumerated for the small configurations
MaxChunks == 5          \* cap on the chunks a non-terminating call may push
MaxNeighbors == 3       \* most chunks the collection holds for a query
MaxResults == 3         \* longest result list handed to buildContext
MaxRagNeighbors == 2    \* most chunks the collection holds when a RAG answer is asked
MaxUploads == 2         \* processDocument calls that reach the store in one behaviour
MaxCallers == 2         \* concurrent callers of generateEmbedding
MaxConstructions == 3   \* cap on the calls of pipeline(...)
MaxInsightRuns == 2     \* cap on the calls of generateDailyInsights
MaxFilterChunks == 2    \* most chunks of differing metadata the collection holds
MaxKeywords == 2        \* most category keywords a file name contains
MaxCleanLen == 5        \* longest string handed to cleanContent

\* ------------------------------------------------------------------------
\* Generic helpers
\* ------------------------------------------------------------------------
Min2(a, b) == IF a < b THEN a ELSE b

Max2(a, b) == IF a > b THEN a ELSE b

SeqsUpTo(S, n) == UNION { [1..k -> S] : k \in 0..n }

\* ------------------------------------------------------------------------
\* Absent values and the states in which a component has not been called
\* ------------------------------------------------------------------------
\* An optional number that was not supplied (undefined); real values are >= 0.
Undefined == -1

NoSearch == [threshold |-> Undefined, returned |-> <<>>, results |-> <<>>, called |-> FALSE]

SearchIdle ==
    /\ isInitialized = FALSE
    /\ query = <<>>
    /\ limit = Undefined
    /\ storeNeighbors = <<>>
    /\ lastSearch = NoSearch
    /\ prevSearch = NoSearch

EmptyContext == [context |-> <<>>, sources |-> <<>>, tokenCount |-> 0]

CtxIdle ==
    /\ ctxResults = <<>>
    /\ maxTokens = 0
    /\ ctxOut = EmptyContext
    /\ ctxPc = "idle"

NoRagCall ==
    [ kind |-> "none", status |-> "none", canned |-> FALSE, failure |-> "none",
      searchStatus |-> "none", searchResults |-> <<>>, maxTokens |-> 0,
      sources |-> <<>>, context |-> <<>>, tokenCount |-> 0, responseLen |-> 0,
      confidence |-> [num |-> 0, den |-> 1], claudeCalls |-> 0,
      error |-> "none" ]

RagIdle ==
    /\ ragChunkTokens = <<>>
    /\ ragCall = NoRagCall

NotStarted ==
    [ pc |-> "constructed", failure |-> "none", threw |-> FALSE,
      clientSet |-> FALSE, tokenizerSet |-> FALSE, collectionSet |-> FALSE ]

NoOp ==
    [ op |-> "none", status |-> "none", failure |-> "none", documentId |-> 0,
      success |-> FALSE, chunksCreated |-> 0, chunkCount |-> 0, textLen |-> 0,
      textChars |-> 0, totalDocuments |-> 0, statsInitialized |-> FALSE,
      results |-> 0, prevRemoved |-> 0, storeReads |-> 0, storeWrites |-> 0,
      before |-> {} ]

StoreIdle ==
    /\ initState = NotStarted
    /\ collection = {}
    /\ nextDoc = 1
    /\ lastOp = NoOp

Callers == 1..MaxCallers

EmbedIdle ==
    /\ embeddingPipeline = 0
    /\ constructions = 0
    /\ successes = 0
    /\ callerPc = [c \in Callers |-> "idle"]
    /\ callerInstance = [c \in Callers |-> 0]
    /\ usedInstances = {}

\* The analyses in the order generateDailyInsights passes them to
\* Promise.all.
TaskOrder == <<"spending", "risk", "strategy">>

Tasks == { TaskOrder[i] : i \in 1..Len(TaskOrder) }

InsightIdle ==
    /\ taskState = [t \in Tasks |-> "notStarted"]
    /\ completionOrder = <<>>
    /\ joinState = "none"
    /\ insights = <<>>
    /\ dailyOutcome = "idle"
    /\ insightGenerationCount = 0

NotCleaned == [service |-> "none", once |-> <<>>, twice |-> <<>>]

CleanIdle == cleanInput = <<>> /\ cleanOut = NotCleaned

NoFilterCall ==
    [ kind |-> "none", documentId |-> Undefined, whereDefined |-> FALSE,
      whereKeys |-> {}, results |-> <<>>, sources |-> <<>> ]

NoFilterOptions == [hasFilters |-> FALSE, filters |-> <<>>, limit |-> Undefined]

FilterIdle ==
    /\ filterStore = <<>>
    /\ filterOptions = NoFilterOptions
    /\ filterCall = NoFilterCall

\* A property of an object: absent, present with the value undefined, or
\* present with a value.
AbsentProp(empty) == [state |-> "absent", value |-> empty]

NoRequest ==
    [ caller |-> "none", ext |-> "", tooBig |-> FALSE, keywords |-> {},
      category |-> AbsentProp(""), tags |-> AbsentProp({}) ]

NoFileOut ==
    [ returned |-> FALSE, fileType |-> "",
      category |-> [defined |-> FALSE, value |-> ""],
      tags |-> [defined |-> FALSE, value |-> {}] ]

NoUploadOut ==
    [ status |-> "none", saved |-> FALSE, rejected |-> FALSE, extractionFailed |-> FALSE,
      unlinkCalled |-> FALSE, unlinkFailed |-> FALSE, success |-> FALSE ]

UploadIdle ==
    /\ uploadReq = NoRequest
    /\ uploadPc = "idle"
    /\ staging = {}
    /\ fileOut = NoFileOut
    /\ uploadOut = NoUploadOut

DocIdle == CleanIdle /\ FilterIdle /\ UploadIdle

SideIdle == EmbedIdle /\ InsightIdle /\ DocIdle

ExtIdle == RagIdle /\ StoreIdle /\ SideIdle

\* ------------------------------------------------------------------------
\* createDocumentChunks
\* ------------------------------------------------------------------------
ChunkSizeDefault == 500

ChunkOverlapDefault == 50

MinChunkChars == 50

RealConfig == [chunkSize |-> ChunkSizeDefault, chunkOverlap |-> ChunkOverlapDefault]

\* Scaled-down configurations with 0 <= chunkOverlap < chunkSize, explored
\* exhaustively next to the configured one.
SmallConfigs ==
    { [chunkSize |-> 3, chunkOverlap |-> 1],
      [chunkSize |-> 2, chunkOverlap |-> 0],
      [chunkSize |-> 3, chunkOverlap |-> 2] }

\* Character widths of the tokens of the small texts: a whitespace token,
\* a 20-character token and a 30-character token.
TokenKinds == {0, 20, 30}

\* Token sequences chunked under the configured 500/50 windows.
UniformText(n, w) == [i \in 1..n |-> w]

TailBlankText(n, w, blank) == [i \in 1..n |-> IF i > n - blank THEN 0 ELSE w]

RealTexts ==
    { UniformText(1200, 4),
      TailBlankText(1200, 4, 60),
      UniformText(520, 4),
      UniformText(30, 4),
      UniformText(10, 4) }

\* Array.prototype.slice(start, end) bounds for 0 <= end <= length: a
\* negative start counts from the end of the array.
SliceFrom(start, len) == IF start < 0 THEN Max2(len + start, 0) ELSE Min2(start, len)

\* Number of characters of the decoded text of tokens [from, to) (0-based,
\* end exclusive), summed by halves.
RECURSIVE CharLen(_, _, _)
CharLen(toks, from, to) ==
    IF from >= to THEN 0
    ELSE IF to = from + 1 THEN (IF toks[to] = 0 THEN 1 ELSE toks[to])
    ELSE LET mid == (from + to) \div 2
         IN  CharLen(toks, from, mid) + CharLen(toks, mid, to)

\* chunkText.trim().length for the window of tokens [from, to).
TrimmedLen(toks, from, to) ==
    LET nonBlank == { i \in (from + 1)..to : toks[i] > 0 }
    IN  IF nonBlank = {} THEN 0
        ELSE LET lo == CHOOSE i \in nonBlank : \A j \in nonBlank : i <= j
                 hi == CHOOSE i \in nonBlank : \A j \in nonBlank : i >= j
             IN  CharLen(toks, lo - 1, hi)

EndIdx(start, len, cfg) == Min2(start + cfg.chunkSize, len)

\* Mutant: the overlap is subtracted after a discarded window too.
NextStartSkipped_Overlap(endIdx, cfg) == endIdx - cfg.chunkOverlap

\* The cursor after a window was too short to keep.
NextStartSkipped(endIdx, cfg) == endIdx

\* Mutant: the overlap is added instead of subtracted.
NextStartEmitted_Forward(endIdx, cfg) == endIdx + cfg.chunkOverlap

\* The cursor after a chunk was emitted.
NextStartEmitted(endIdx, cfg) == endIdx - cfg.chunkOverlap

\* Mutant: the backfill counts one chunk too few.
BackfillTotalChunks_OffByOne(cs) ==
    [i \in 1..Len(cs) |-> [cs[i] EXCEPT !.totalChunks = Len(cs) - 1]]

\* chunks.forEach(chunk => chunk.metadata.totalChunks = chunks.length)
BackfillTotalChunks(cs) ==
    [i \in 1..Len(cs) |-> [cs[i] EXCEPT !.totalChunks = Len(cs)]]

ChunkIdle ==
    /\ config = RealConfig
    /\ tokens = <<>>
    /\ startIdx = 0
    /\ chunkIndex = 0
    /\ chunks = <<>>
    /\ windows = <<>>
    /\ pc = "idle"

InitChunk ==
    /\ SearchIdle
    /\ CtxIdle
    /\ ExtIdle
    /\ \/ /\ config \in SmallConfigs
          /\ tokens \in SeqsUpTo(TokenKinds, MaxTokens)
       \/ /\ config = RealConfig
          /\ tokens \in RealTexts
    /\ startIdx = 0
    /\ chunkIndex = 0
    /\ chunks = <<>>
    /\ windows = <<>>
    /\ pc = "loop"

\* One iteration of the while loop whose window is under 50 trimmed characters.
ChunkSkip ==
    /\ pc = "loop"
    /\ startIdx < Len(tokens)
    /\ LET endIdx == EndIdx(startIdx, Len(tokens), config)
           from   == SliceFrom(startIdx, Len(tokens))
       IN  /\ TrimmedLen(tokens, from, endIdx) < MinChunkChars
           /\ startIdx' = NextStartSkipped(endIdx, config)
           /\ windows' = Append(windows, [from |-> from, end |-> endIdx, emitted |-> FALSE])
    /\ UNCHANGED <<config, tokens, chunkIndex, chunks, pc>>
    /\ UNCHANGED <<searchVars, ctxVars, extVars>>

\* One iteration of the while loop that pushes a chunk.
ChunkEmit ==
    /\ pc = "loop"
    /\ startIdx < Len(tokens)
    /\ Len(chunks) < MaxChunks
    /\ LET endIdx == EndIdx(startIdx, Len(tokens), config)
           from   == SliceFrom(startIdx, Len(tokens))
           count  == IF endIdx > from THEN endIdx - from ELSE 0
       IN  /\ TrimmedLen(tokens, from, endIdx) >= MinChunkChars
           /\ chunks' = Append(chunks,
                  [ chunkIndex  |-> chunkIndex,
                    totalChunks |-> 0,
                    tokenCount  |-> count,
                    contentLen  |-> TrimmedLen(tokens, from, endIdx),
                    start       |-> startIdx,
                    from        |-> from,
                    end         |-> endIdx ])
           /\ chunkIndex' = chunkIndex + 1
           /\ startIdx' = NextStartEmitted(endIdx, config)
           /\ windows' = Append(windows, [from |-> from, end |-> endIdx, emitted |-> TRUE])
    /\ UNCHANGED <<config, tokens, pc>>
    /\ UNCHANGED <<searchVars, ctxVars, extVars>>

\* The loop condition fails: backfill totalChunks and return.
ChunkReturn ==
    /\ pc = "loop"
    /\ ~ (startIdx < Len(tokens))
    /\ chunks' = BackfillTotalChunks(chunks)
    /\ pc' = "done"
    /\ UNCHANGED <<config, tokens, startIdx, chunkIndex, windows>>
    /\ UNCHANGED <<searchVars, ctxVars, extVars>>

NextChunk == ChunkSkip \/ ChunkEmit \/ ChunkReturn

SpecChunk == InitChunk /\ [][NextChunk]_vars

\* ------------------------------------------------------------------------
\* Strings: a string is a sequence of characters
\* ------------------------------------------------------------------------
\* JavaScript's a || b for an optional number: undefined and 0 are falsy.
OrDefault(v, dflt) == IF v = Undefined \/ v = 0 THEN dflt ELSE v

IsSpace(c) == c \in {" ", "\t", "\n"}

LowerChar(c) ==
    CASE c = "A" -> "a"
      [] c = "B" -> "b"
      [] c = "C" -> "c"
      [] c = "D" -> "d"
      [] c = "E" -> "e"
      [] c = "F" -> "f"
      [] OTHER -> c

\* String.prototype.toLowerCase
ToLowerCase(str) == [i \in 1..Len(str) |-> LowerChar(str[i])]

\* String.prototype.includes: needle occurs in hay as a contiguous run
\* (the empty string occurs in every string).
Includes(hay, needle) ==
    \E i \in 0..(Len(hay) - Len(needle)) :
        SubSeq(hay, i + 1, i + Len(needle)) = needle

\* First index >= i of str that is not whitespace, or Len(str) + 1.
RECURSIVE SkipSpaces(_, _)
SkipSpaces(str, i) ==
    IF i > Len(str) \/ ~IsSpace(str[i]) THEN i ELSE SkipSpaces(str, i + 1)

\* String.prototype.split(/\s+/): leading or trailing whitespace yields an
\* empty first or last word, and the empty string yields one empty word.
RECURSIVE SplitFrom(_, _, _, _)
SplitFrom(str, i, cur, acc) ==
    IF i > Len(str) THEN Append(acc, cur)
    ELSE IF IsSpace(str[i])
         THEN SplitFrom(str, SkipSpaces(str, i), <<>>, Append(acc, cur))
         ELSE SplitFrom(str, i + 1, Append(cur, str[i]), acc)

SplitWhitespace(str) == SplitFrom(str, 1, <<>>, <<>>)

\* ------------------------------------------------------------------------
\* calculateRelevance
\* ------------------------------------------------------------------------
SimilarityWeight == 8       \* 0.8, in tenths

KeywordWeight == 2          \* 0.2, in tenths

\* Mutant: only looks for the query word inside the content words.
WordMatches_OneWay(word, contentWords) ==
    \E j \in 1..Len(contentWords) : Includes(contentWords[j], word)

\* contentWords.some(cWord => cWord.includes(word) || word.includes(cWord))
WordMatches(word, contentWords) ==
    \E j \in 1..Len(contentWords) :
        Includes(contentWords[j], word) \/ Includes(word, contentWords[j])

\* The for loop counting keywordMatches over queryWords[1..k].
RECURSIVE KeywordMatches(_, _, _)
KeywordMatches(queryWords, contentWords, k) ==
    IF k = 0 THEN 0
    ELSE KeywordMatches(queryWords, contentWords, k - 1)
         + (IF WordMatches(queryWords[k], contentWords) THEN 1 ELSE 0)

\* (similarity * 0.8) + (keywordMatches / queryWords.length * 0.2), as the
\* exact fraction num / den with similarity in hundredths.
calculateRelevance(q, content, similarity) ==
    LET queryWords   == SplitWhitespace(ToLowerCase(q))
        contentWords == SplitWhitespace(ToLowerCase(content))
        matches      == KeywordMatches(queryWords, contentWords, Len(queryWords))
    IN  [ num |-> SimilarityWeight * similarity * Len(queryWords)
                  + KeywordWeight * 100 * matches,
          den |-> 1000 * Len(queryWords) ]

\* ------------------------------------------------------------------------
\* semanticSearch
\* ------------------------------------------------------------------------
DefaultLimit == 10

DefaultThreshold == 70      \* 0.7

DefaultDistance == 100      \* 1

\* Query strings: "ab cd", "Ef" and " abc".
Queries ==
    { <<"a", "b", " ", "c", "d">>,
      <<"E", "f">>,
      <<" ", "a", "b", "c">> }

\* Chunk contents: "ab ef" and "cd AB".
Contents ==
    { <<"a", "b", " ", "e", "f">>,
      <<"c", "d", " ", "A", "B">> }

\* Cosine distances the store reports, in hundredths.
Distances == {0, 5, 30, 45}

\* options.threshold values a caller passes, in hundredths, or none.
Thresholds == {0, 50, 70, 90, Undefined}

Limits == {2, Undefined}

\* The collection answers a query nearest first.
NearestFirst(ns) == \A i \in 1..(Len(ns) - 1) : ns[i].distance <= ns[i + 1].distance

\* collection.query({nResults}): the nResults nearest neighbors.
StoreQuery(ns, nResults) == SubSeq(ns, 1, Min2(nResults, Len(ns)))

\* const distance = results.distances?.[0]?.[i] || 1; similarity = 1 - distance
SimilarityOf(distance) == 100 - OrDefault(distance, DefaultDistance)

\* Mutant: the threshold filter lets every neighbor through.
PassesThreshold_Always(similarity, threshold) == TRUE

\* similarity >= (options.threshold || 0.7)
PassesThreshold(similarity, threshold) ==
    similarity >= OrDefault(threshold, DefaultThreshold)

\* The for loop over the store's answer: keeps the neighbors over the
\* threshold, in the store's order, with their similarity and relevance.
RECURSIVE ProcessResults(_, _, _, _)
ProcessResults(returned, q, threshold, k) ==
    IF k = 0 THEN <<>>
    ELSE LET before     == ProcessResults(returned, q, threshold, k - 1)
             similarity == SimilarityOf(returned[k].distance)
         IN  IF PassesThreshold(similarity, threshold)
             THEN Append(before,
                      [ chunk      |-> [id |-> k, content |-> returned[k].content],
                        similarity |-> similarity,
                        relevance  |-> calculateRelevance(q, returned[k].content, similarity) ])
             ELSE before

\* The comparator (a, b) => b.relevance - a.relevance is positive: b goes first.
RelevanceLess(a, b) == a.relevance.num * b.relevance.den < b.relevance.num * a.relevance.den

\* Insert r behind every element that does not compare after it.
RECURSIVE InsertSorted(_, _)
InsertSorted(sorted, r) ==
    IF sorted = <<>> THEN <<r>>
    ELSE IF RelevanceLess(sorted[Len(sorted)], r)
         THEN Append(InsertSorted(SubSeq(sorted, 1, Len(sorted) - 1), r), sorted[Len(sorted)])
         ELSE Append(sorted, r)

\* Mutant: the sort is skipped and the store's order is returned.
SortByRelevance_Unsorted(rs, k) == SubSeq(rs, 1, k)

\* searchResults.sort((a, b) => b.relevance - a.relevance): Array.prototype.sort
\* is stable, so this is the stable descending sort of rs[1..k].
RECURSIVE SortByRelevance(_, _)
SortByRelevance(rs, k) ==
    IF k = 0 THEN <<>>
    ELSE InsertSorted(SortByRelevance(rs, k - 1), rs[k])

InitSearch ==
    /\ ChunkIdle
    /\ CtxIdle
    /\ ExtIdle
    /\ isInitialized \in BOOLEAN
    /\ query \in Queries
    /\ limit \in Limits
    /\ storeNeighbors \in { ns \in SeqsUpTo([content : Contents, distance : Distances], MaxNeighbors) :
                              NearestFirst(ns) }
    /\ lastSearch = NoSearch
    /\ prevSearch = NoSearch

\* semanticSearch called while the service is not initialized: returns [].
SearchUninitialized(threshold) ==
    /\ ~isInitialized
    /\ prevSearch' = lastSearch
    /\ lastSearch' = [threshold |-> threshold, returned |-> <<>>, results |-> <<>>, called |-> TRUE]
    /\ UNCHANGED <<isInitialized, query, limit, storeNeighbors>>
    /\ UNCHANGED <<chunkVars, ctxVars, extVars>>

\* semanticSearch on an initialized service: query the store, filter by
\* threshold, compute relevance, sort.
SearchInitialized(threshold) ==
    /\ isInitialized
    /\ LET returned == StoreQuery(storeNeighbors, OrDefault(limit, DefaultLimit))
           kept     == ProcessResults(returned, query, threshold, Len(returned))
       IN  lastSearch' = [ threshold |-> threshold,
                           returned  |-> returned,
                           results   |-> SortByRelevance(kept, Len(kept)),
                           called    |-> TRUE ]
    /\ prevSearch' = lastSearch
    /\ UNCHANGED <<isInitialized, query, limit, storeNeighbors>>
    /\ UNCHANGED <<chunkVars, ctxVars, extVars>>

NextSearch ==
    \E threshold \in Thresholds :
        \/ SearchUninitialized(threshold)
        \/ SearchInitialized(threshold)

SpecSearch == InitSearch /\ [][NextSearch]_vars

\* ------------------------------------------------------------------------
\* buildContext
\* ------------------------------------------------------------------------
\* this.tokenizer.encode(chunkText).length of a formatted chunk
\* "\n\n--- Source: {fileName} ---\n{content}": a short chunk, a medium
\* chunk and a full 500-token chunk with its header.
FormattedTokenCounts == {60, 300, 510}

\* maxTokens values: the smallest and a small maxContextTokens, values
\* between one and three chunks, and the default.
Budgets == {100, 400, 600, 1000, 4000}

\* Mutant: the budget is tested before the chunk is added.
ExceedsBudget_BeforeAdd(tokenCount, chunkTokens, maxT) == tokenCount > maxT

\* if (tokenCount + chunkTokens > maxTokens)
ExceedsBudget(tokenCount, chunkTokens, maxT) == tokenCount + chunkTokens > maxT

RECURSIVE BuildContextFrom(_, _, _, _)

\* Mutant: a chunk over the budget is skipped and the loop goes on.
OnOverBudget_Continue(results, maxT, i, acc) == BuildContextFrom(results, maxT, i + 1, acc)

\* break: the loop ends with what was collected so far.
OnOverBudget(results, maxT, i, acc) == acc

\* The for loop of buildContext from the i-th result on.
BuildContextFrom(results, maxT, i, acc) ==
    IF i > Len(results) THEN acc
    ELSE IF ExceedsBudget(acc.tokenCount, results[i].chunkTokens, maxT)
         THEN OnOverBudget(results, maxT, i, acc)
         ELSE BuildContextFrom(results, maxT, i + 1,
                  [ context    |-> Append(acc.context, results[i].chunk.id),
                    sources    |-> Append(acc.sources, results[i].chunk),
                    tokenCount |-> acc.tokenCount + results[i].chunkTokens ])

buildContext(results, maxT) == BuildContextFrom(results, maxT, 1, EmptyContext)

\* Result lists whose chunks are numbered in list order.
ResultLists ==
    { [i \in 1..Len(ts) |-> [chunk |-> [id |-> i], chunkTokens |-> ts[i]]] :
          ts \in SeqsUpTo(FormattedTokenCounts, MaxResults) }

InitCtx ==
    /\ ChunkIdle
    /\ SearchIdle
    /\ ExtIdle
    /\ ctxResults \in ResultLists
    /\ maxTokens \in Budgets
    /\ ctxOut = EmptyContext
    /\ ctxPc = "called"

BuildContext ==
    /\ ctxPc = "called"
    /\ ctxOut' = buildContext(ctxResults, maxTokens)
    /\ ctxPc' = "done"
    /\ UNCHANGED <<ctxResults, maxTokens>>
    /\ UNCHANGED <<chunkVars, searchVars, extVars>>

NextCtx == BuildContext

SpecCtx == InitCtx /\ [][NextCtx]_vars

\* ------------------------------------------------------------------------
\* RAGAIService.generateRAGResponse / analyzeDocument
\* ------------------------------------------------------------------------
RagThreshold == 70              \* threshold: 0.7

RagDefaultChunks == 5           \* queryDto.contextChunks || 5

RagDefaultMaxTokens == 4000     \* queryDto.maxContextTokens || 4000

AnalyzeThreshold == 60          \* threshold: 0.6

AnalyzeLimit == 10              \* limit: 10

AnalyzeMaxTokens == 6000        \* buildContext(searchResults, 6000)

\* Cosine distances of the stored chunks to the query, in hundredths
\* (cosine distance ranges over [0, 2]).
RagDistances == {0, 5, 30, 35, 150}

\* Token counts of the formatted chunks offered to the context.
RagTokenCounts == {60, 510}

\* queryDto.contextChunks and queryDto.maxContextTokens as callers pass them.
ContextChunkChoices == {Undefined, 1}

MaxContextTokenChoices == {Undefined, 100, 600}

\* What the awaited calls of a search do: both succeed, the embedding call
\* throws, or the store query throws.
SearchFailures == {"none", "embedding", "query"}

\* What claudeAIService.generateFinancialAnalysis does: throws, or returns
\* a response of len characters and tokens tokens.
ClaudeOutcomes ==
    { [status |-> "fails", len |-> 0, tokens |-> 0],
      [status |-> "ok", len |-> 200, tokens |-> 50],
      [status |-> "ok", len |-> 3000, tokens |-> 700] }

\* Mutant: the catch block of semanticSearch returns an empty list.
OnSearchError_Swallow(failure) == [status |-> "ok", results |-> <<>>]

\* catch (error) { ...; throw error; } of semanticSearch
OnSearchError(failure) == [status |-> "throws", results |-> <<>>]

\* ragService.semanticSearch(options) as a function of what the store
\* holds and of what the awaited calls do.
semanticSearch(initialized, ns, q, lim, threshold, failure) ==
    IF ~initialized THEN [status |-> "ok", results |-> <<>>]
    ELSE IF failure # "none" THEN OnSearchError(failure)
    ELSE LET returned == StoreQuery(ns, OrDefault(lim, DefaultLimit))
             kept     == ProcessResults(returned, q, threshold, Len(returned))
         IN  [status |-> "ok", results |-> SortByRelevance(kept, Len(kept))]

\* The token count buildContext measures for every result.
WithTokens(results, toks) ==
    [ i \in 1..Len(results) |->
        [ chunk       |-> results[i].chunk,
          similarity  |-> results[i].similarity,
          chunkTokens |-> toks[results[i].chunk.id] ] ]

RECURSIVE SumSimilarity(_, _)
SumSimilarity(results, k) ==
    IF k = 0 THEN 0 ELSE SumSimilarity(results, k - 1) + results[k].similarity

\* calculateConfidence(searchResults, response) as the exact fraction
\* num / den: min(avg*0.7 + min(n/5, 1)*0.2 + min(len/1000, 1)*0.1, 1).
calculateConfidence(results, responseLen) ==
    IF Len(results) = 0 THEN [num |-> 0, den |-> 1]
    ELSE LET n   == Len(results)
             den == 10000 * n
             raw == 70 * SumSimilarity(results, n)
                    + 400 * Min2(n, 5) * n
                    + Min2(responseLen, 1000) * n
         IN  [num |-> Min2(raw, den), den |-> den]

\* The list handed to calculateConfidence: this.calculateConfidence(searchResults, ...)
ConfidenceInput(searchResults, sources) == searchResults

\* Mutant: the empty-result test never fires.
IsEmptyResult_Never(results) == FALSE

\* if (searchResults.length === 0)
IsEmptyResult(results) == Len(results) = 0

RagThrows(kind, search, failure, calls) ==
    [ NoRagCall EXCEPT !.kind = kind, !.status = "throws", !.failure = failure,
                       !.searchStatus = search.status, !.searchResults = search.results,
                       !.claudeCalls = calls,
                       !.error = IF failure # "none" THEN "search failed"
                                 ELSE "generation failed" ]

\* Steps 2..5 shared by generateRAGResponse and analyzeDocument once the
\* search has returned a non-empty list.
RagAnswer(kind, search, failure, toks, maxT, claude) ==
    LET built == buildContext(WithTokens(search.results, toks), maxT)
    IN  IF claude.status = "fails"
        THEN [ RagThrows(kind, search, failure, 1) EXCEPT !.maxTokens = maxT ]
        ELSE [ kind          |-> kind,
               status        |-> "returned",
               canned        |-> FALSE,
               failure       |-> failure,
               searchStatus  |-> search.status,
               searchResults |-> search.results,
               maxTokens     |-> maxT,
               sources       |-> built.sources,
               context       |-> built.context,
               tokenCount    |-> claude.tokens,
               responseLen   |-> claude.len,
               confidence    |-> calculateConfidence(
                                    ConfidenceInput(search.results, built.sources), claude.len),
               claudeCalls   |-> 1,
               error         |-> "none" ]

generateRAGResponse(initialized, ns, q, toks, contextChunks, maxContextTokens, failure, claude) ==
    LET search == semanticSearch(initialized, ns, q,
                      OrDefault(contextChunks, RagDefaultChunks), RagThreshold, failure)
    IN  IF search.status = "throws" THEN RagThrows("query", search, failure, 0)
        ELSE IF IsEmptyResult(search.results)
        THEN [ NoRagCall EXCEPT !.kind = "query", !.status = "returned", !.canned = TRUE,
                                !.failure = failure, !.searchStatus = search.status ]
        ELSE RagAnswer("query", search, failure, toks,
                       OrDefault(maxContextTokens, RagDefaultMaxTokens), claude)

\* throw new Error('No relevant content found for analysis')
NoContentError == "No relevant content found for analysis"

\* Mutant: analyzeDocument answers an empty search as generateRAGResponse does.
OnEmptyAnalysis_Canned(search, failure) ==
    [ NoRagCall EXCEPT !.kind = "analyze", !.status = "returned", !.canned = TRUE,
                       !.failure = failure, !.searchStatus = search.status ]

\* if (searchResults.length === 0) throw ...; the catch block rethrows it.
OnEmptyAnalysis(search, failure) ==
    [ RagThrows("analyze", search, failure, 0) EXCEPT !.error = NoContentError ]

analyzeDocument(initialized, ns, q, toks, failure, claude) ==
    LET search == semanticSearch(initialized, ns, q, AnalyzeLimit, AnalyzeThreshold, failure)
    IN  IF search.status = "throws" THEN RagThrows("analyze", search, failure, 0)
        ELSE IF Len(search.results) = 0 THEN OnEmptyAnalysis(search, failure)
        ELSE RagAnswer("analyze", search, failure, toks, AnalyzeMaxTokens, claude)

RagNearestFirst(ns) == \A i \in 1..(Len(ns) - 1) : ns[i].distance <= ns[i + 1].distance

InitRag ==
    /\ ChunkIdle
    /\ CtxIdle
    /\ isInitialized \in BOOLEAN
    /\ query \in Queries
    /\ limit = Undefined
    /\ storeNeighbors \in { ns \in SeqsUpTo([content : Contents, distance : RagDistances],
                                             MaxRagNeighbors) : RagNearestFirst(ns) }
    /\ lastSearch = NoSearch
    /\ prevSearch = NoSearch
    /\ ragChunkTokens \in [1..Len(storeNeighbors) -> RagTokenCounts]
    /\ ragCall = NoRagCall
    /\ StoreIdle
    /\ SideIdle

\* A call leaves the service and the store as they were, so one call per
\* behaviour covers every call.
GenerateRAGResponse ==
    /\ ragCall = NoRagCall
    /\ \E contextChunks \in ContextChunkChoices, maxContextTokens \in MaxContextTokenChoices,
          failure \in SearchFailures, claude \in ClaudeOutcomes :
          ragCall' = generateRAGResponse(isInitialized, storeNeighbors, query, ragChunkTokens,
                                         contextChunks, maxContextTokens, failure, claude)
    /\ UNCHANGED <<ragChunkTokens, chunkVars, searchVars, ctxVars, storeVars, sideVars>>

AnalyzeDocument ==
    /\ ragCall = NoRagCall
    /\ \E failure \in SearchFailures, claude \in ClaudeOutcomes :
          ragCall' = analyzeDocument(isInitialized, storeNeighbors, query, ragChunkTokens,
                                     failure, claude)
    /\ UNCHANGED <<ragChunkTokens, chunkVars, searchVars, ctxVars, storeVars, sideVars>>

NextRag == GenerateRAGResponse \/ AnalyzeDocument

SpecRag == InitRag /\ [][NextRag]_vars

\* ------------------------------------------------------------------------
\* RAGService lifecycle and store operations
\* ------------------------------------------------------------------------
\* The step of initializeRAGSystem that throws: creating the store client,
\* the tokenizer, getting or creating the collection, the storage
\* directory; or none.  The logger writes in process and does not throw.
InitFailures == {"none", "client", "tokenizer", "collection", "mkdir"}

\* Position of the steps; this.isInitialized = true is step 5.
StepIndex(f) ==
    CASE f = "client"     -> 1
      [] f = "tokenizer"  -> 2
      [] f = "collection" -> 3
      [] f = "mkdir"      -> 4
      [] OTHER            -> 6

\* this.isInitialized when initializeRAGSystem returns or throws.
InitializedBySystem(f) == StepIndex(f) > 5

\* Mutant: the flag is raised once the client and the tokenizer exist and
\* the catch block leaves it as it is.
IsInitializedAfterInit_BeforeCollection(f) == StepIndex(f) > 2

\* this.isInitialized when onModuleInit returns: its catch block resets it.
IsInitializedAfterInit(f) == IF f = "none" THEN InitializedBySystem(f) ELSE FALSE

\* Texts handed to processDocument, as token sequences: empty, 40
\* characters, two 40-character words 491 blanks apart, and texts of 1, 3
\* and 7 chunks ending in blanks, and 1200 tokens of 4 characters.
SparseText == [i \in 1..511 |-> IF i <= 10 \/ i > 501 THEN 4 ELSE 0]

DocTexts ==
    { <<>>,
      UniformText(10, 4),
      SparseText,
      TailBlankText(520, 4, 60),
      TailBlankText(1200, 4, 60),
      TailBlankText(3200, 4, 50),
      UniformText(1200, 4) }

\* The while loop of createDocumentChunks from cursor start on.  An emitted
\* window that leaves the cursor where it was is emitted again without end:
\* the call does not return.
RECURSIVE ChunkLoop(_, _, _, _)
ChunkLoop(toks, cfg, start, cs) ==
    IF ~(start < Len(toks)) THEN [returns |-> TRUE, chunks |-> BackfillTotalChunks(cs)]
    ELSE LET endIdx == EndIdx(start, Len(toks), cfg)
             from   == SliceFrom(start, Len(toks))
         IN  IF TrimmedLen(toks, from, endIdx) < MinChunkChars
             THEN ChunkLoop(toks, cfg, NextStartSkipped(endIdx, cfg), cs)
             ELSE IF NextStartEmitted(endIdx, cfg) <= start
                  THEN [returns |-> FALSE, chunks |-> cs]
                  ELSE ChunkLoop(toks, cfg, NextStartEmitted(endIdx, cfg),
                           Append(cs, [ chunkIndex  |-> Len(cs),
                                        totalChunks |-> 0,
                                        tokenCount  |-> endIdx - from,
                                        from        |-> from,
                                        end         |-> endIdx ]))

createDocumentChunks(toks, cfg) == ChunkLoop(toks, cfg, 0, <<>>)

\* createDocumentChunks under the service's configuration and the trimmed
\* length of the whole text, tabulated once for the texts of DocTexts.
DocChunkTable ==
    { [ text    |-> t,
        chunked |-> createDocumentChunks(t, RealConfig),
        chars   |-> TrimmedLen(t, 0, Len(t)) ] : t \in DocTexts }

ChunkedText(toks) == CHOOSE row \in DocChunkTable : row.text = toks

\* Mutant: a chunk whose embedding fails is left out and the rest is stored.
EmbedAll_SkipFailed(n, embedFailAt) == [ok |-> TRUE, embedded |-> (1..n) \ {embedFailAt}]

\* for (const chunk of chunks) { await this.generateEmbedding(...) }: the
\* first failing call throws out of the loop.
EmbedAll(n, embedFailAt) ==
    IF embedFailAt \in 1..n THEN [ok |-> FALSE, embedded |-> {}]
    ELSE [ok |-> TRUE, embedded |-> 1..n]

\* Mutant: the metadata of the first chunk is read with optional chaining.
HasFirstChunk_Optional(n) == TRUE

\* metadata: chunks[0].metadata throws a TypeError when chunks is empty.
HasFirstChunk(n) == n > 0

\* Mutant: the operations do not look at the flag.
Unavailable_Never(initialized) == FALSE

\* if (!this.isInitialized) at the head of every operation.
Unavailable(initialized) == ~initialized

\* The call of processDocument that is made to fail: the embedding of
\* chunk embedFailAt, or collection.add.
InjectedFault(n, embedFailAt, addFails) ==
    IF embedFailAt \in 1..n THEN "embedding"
    ELSE IF addFails THEN "add"
    ELSE "none"

\* Mutant: the index of the last chunk is reported.
ChunksCreated_LastIndex(cs) == Len(cs) - 1

\* chunksCreated: chunks.length
ChunksCreated(cs) == Len(cs)

ProcessFailed(coll, textLen, textChars, n, failure, writes) ==
    [ NoOp EXCEPT !.op = "process", !.status = "returned", !.failure = failure,
                  !.success = FALSE, !.chunksCreated = 0, !.chunkCount = n,
                  !.textLen = textLen, !.textChars = textChars,
                  !.storeWrites = writes, !.before = coll ]

\* processDocument(content, metadata): the new collection content, the next
\* fresh id and the outcome.
processDocument(initialized, coll, doc, toks, embedFailAt, addFails) ==
    LET textLen   == Len(toks)
        textChars == ChunkedText(toks).chars
    IN  IF Unavailable(initialized)
        THEN [ collection |-> coll, nextDoc |-> doc,
               op |-> ProcessFailed(coll, textLen, textChars, 0, "uninitialized", 0) ]
        ELSE LET chunked == ChunkedText(toks).chunked
                 n       == Len(chunked.chunks)
                 emb     == EmbedAll(n, embedFailAt)
                 fault   == InjectedFault(n, embedFailAt, addFails)
                 added   == { [id |-> <<doc, i>>, documentId |-> doc] : i \in emb.embedded }
             IN  IF ~chunked.returns
                 THEN [ collection |-> coll, nextDoc |-> doc,
                        op |-> [ ProcessFailed(coll, textLen, textChars, n, "none", 0)
                                   EXCEPT !.status = "hangs" ] ]
                 ELSE IF ~emb.ok
                 THEN [ collection |-> coll, nextDoc |-> doc,
                        op |-> ProcessFailed(coll, textLen, textChars, n, fault, 0) ]
                 ELSE IF addFails
                 THEN [ collection |-> coll, nextDoc |-> doc,
                        op |-> ProcessFailed(coll, textLen, textChars, n, fault, 1) ]
                 ELSE IF ~HasFirstChunk(n)
                 THEN [ collection |-> coll \cup added, nextDoc |-> doc,
                        op |-> ProcessFailed(coll, textLen, textChars, n, fault, 1) ]
                 ELSE [ collection |-> coll \cup added, nextDoc |-> doc + 1,
                        op |-> [ NoOp EXCEPT !.op = "process", !.status = "returned",
                                             !.success = TRUE,
                                             !.chunksCreated = ChunksCreated(chunked.chunks),
                                             !.chunkCount = n, !.documentId = doc,
                                             !.textLen = textLen, !.textChars = textChars,
                                             !.failure = fault,
                                             !.storeWrites = 1, !.before = coll ] ]

\* Mutant: the where clause is dropped and every id is returned.
IdsOfDocument_All(coll, documentId) == coll

\* collection.get({ where: { documentId } })
IdsOfDocument(coll, documentId) == { c \in coll : c.documentId = documentId }

\* deleteDocument(documentId); failure names the store call that throws.
deleteDocument(initialized, coll, documentId, failure) ==
    LET base == [ NoOp EXCEPT !.op = "delete", !.documentId = documentId,
                              !.failure = failure, !.before = coll ]
        ids  == IdsOfDocument(coll, documentId)
    IN  IF Unavailable(initialized)
        THEN [ collection |-> coll,
               op |-> [ base EXCEPT !.status = "returned", !.success = FALSE ] ]
        ELSE IF failure = "get"
        THEN [ collection |-> coll,
               op |-> [ base EXCEPT !.status = "throws", !.storeReads = 1 ] ]
        ELSE IF ids # {}
        THEN IF failure = "delete"
             THEN [ collection |-> coll,
                    op |-> [ base EXCEPT !.status = "throws", !.storeReads = 1,
                                         !.storeWrites = 1 ] ]
             ELSE [ collection |-> coll \ ids,
                    op |-> [ base EXCEPT !.status = "returned", !.success = TRUE,
                                         !.chunkCount = Cardinality(ids),
                                         !.storeReads = 1, !.storeWrites = 1 ] ]
        ELSE [ collection |-> coll,
               op |-> [ base EXCEPT !.status = "returned", !.success = FALSE,
                                    !.storeReads = 1 ] ]

\* getCollectionStats()
getCollectionStats(initialized, coll, failure) ==
    LET base == [ NoOp EXCEPT !.op = "stats", !.failure = failure, !.before = coll ]
    IN  IF Unavailable(initialized)
        THEN [ base EXCEPT !.status = "returned", !.totalDocuments = 0,
                           !.statsInitialized = FALSE ]
        ELSE IF failure = "count"
        THEN [ base EXCEPT !.status = "throws", !.storeReads = 1 ]
        ELSE [ base EXCEPT !.status = "returned", !.totalDocuments = Cardinality(coll),
                           !.statsInitialized = initialized, !.storeReads = 1 ]

\* The stored chunks as the store answers a query: every stored chunk is
\* taken to lie at distance 0.05 of the query.
RECURSIVE NeighborsOf(_)
NeighborsOf(coll) ==
    IF coll = {} THEN <<>>
    ELSE LET c == CHOOSE x \in coll : TRUE
         IN  <<[content |-> <<"a", "b", " ", "e", "f">>, distance |-> 5]>> \o NeighborsOf(coll \ {c})

\* semanticSearch(options) as a service operation.
searchOperation(initialized, coll, q, failure) ==
    LET out == semanticSearch(initialized, NeighborsOf(coll), q, Undefined, Undefined, failure)
    IN  [ NoOp EXCEPT !.op = "search", !.failure = failure, !.before = coll,
                      !.status = IF out.status = "ok" THEN "returned" ELSE "throws",
                      !.results = Len(out.results),
                      !.storeReads = IF initialized /\ failure # "embedding" THEN 1 ELSE 0 ]

\* What the collection holds when the process starts: nothing, or the
\* seven chunks of a document indexed by an earlier run.
PersistedCollections ==
    { {}, { [id |-> <<1, i>>, documentId |-> 1] : i \in 1..7 } }

InitStore ==
    /\ ChunkIdle
    /\ SearchIdle
    /\ CtxIdle
    /\ RagIdle
    /\ initState = NotStarted
    /\ collection \in PersistedCollections
    /\ nextDoc = 2
    /\ lastOp = NoOp
    /\ SideIdle

OnModuleInit ==
    /\ initState.pc = "constructed"
    /\ \E f \in InitFailures :
          /\ initState' = [ pc            |-> "started",
                            failure       |-> f,
                            threw         |-> FALSE,
                            clientSet     |-> StepIndex(f) > 1,
                            tokenizerSet  |-> StepIndex(f) > 2,
                            collectionSet |-> StepIndex(f) > 3 ]
          /\ isInitialized' = IsInitializedAfterInit(f)
    /\ UNCHANGED <<collection, nextDoc, lastOp>>
    /\ UNCHANGED <<query, limit, storeNeighbors, lastSearch, prevSearch>>
    /\ UNCHANGED <<chunkVars, ctxVars, ragVars, sideVars>>

ProcessDocument ==
    /\ initState.pc = "started"
    /\ nextDoc <= MaxUploads + 1
    /\ \E toks \in DocTexts, embedFailAt \in 0..2, addFails \in BOOLEAN :
          LET out == processDocument(isInitialized, collection, nextDoc, toks,
                                     embedFailAt, addFails)
          IN  /\ collection' = out.collection
              /\ nextDoc' = out.nextDoc
              /\ lastOp' = out.op
    /\ UNCHANGED <<initState, chunkVars, searchVars, ctxVars, ragVars, sideVars>>

DeleteDocument ==
    /\ initState.pc = "started"
    /\ \E documentId \in 1..(MaxUploads + 1), failure \in {"none", "get", "delete"} :
          LET out == deleteDocument(isInitialized, collection, documentId, failure)
              prev == IF lastOp.op = "delete" /\ lastOp.success
                         /\ lastOp.documentId = documentId
                      THEN lastOp.chunkCount ELSE 0
          IN  /\ collection' = out.collection
              /\ lastOp' = [out.op EXCEPT !.prevRemoved = prev]
    /\ UNCHANGED <<initState, nextDoc, chunkVars, searchVars, ctxVars, ragVars, sideVars>>

GetCollectionStats ==
    /\ initState.pc = "started"
    /\ \E failure \in {"none", "count"} :
          lastOp' = getCollectionStats(isInitialized, collection, failure)
    /\ UNCHANGED <<initState, collection, nextDoc, chunkVars, searchVars, ctxVars, ragVars, sideVars>>

SearchOperation ==
    /\ initState.pc = "started"
    /\ \E failure \in SearchFailures :
          lastOp' = searchOperation(isInitialized, collection, <<"a", "b", " ", "c", "d">>, failure)
    /\ UNCHANGED <<initState, collection, nextDoc, chunkVars, searchVars, ctxVars, ragVars, sideVars>>

NextStore ==
    \/ OnModuleInit
    \/ ProcessDocument
    \/ DeleteDocument
    \/ GetCollectionStats
    \/ SearchOperation

SpecStore == InitStore /\ [][NextStore]_vars

\* ------------------------------------------------------------------------
\* initializeEmbeddingPipeline / generateEmbedding
\* ------------------------------------------------------------------------
\* if (!this.embeddingPipeline)
NeedsPipeline(p) == p = 0

InitEmbed ==
    /\ ChunkIdle
    /\ SearchIdle
    /\ CtxIdle
    /\ RagIdle
    /\ StoreIdle
    /\ InsightIdle
    /\ EmbedIdle
    /\ DocIdle

\* generateEmbedding is entered and runs up to the first await: the field
\* is tested, and when it is unset pipeline(...) is called and awaited.
GenerateEmbeddingCall(c) ==
    /\ callerPc[c] = "idle"
    /\ IF NeedsPipeline(embeddingPipeline)
       THEN /\ constructions < MaxConstructions
            /\ constructions' = constructions + 1
            /\ callerInstance' = [callerInstance EXCEPT ![c] = constructions + 1]
            /\ callerPc' = [callerPc EXCEPT ![c] = "constructing"]
       ELSE /\ callerPc' = [callerPc EXCEPT ![c] = "initialized"]
            /\ UNCHANGED <<constructions, callerInstance>>
    /\ UNCHANGED <<embeddingPipeline, successes, usedInstances>>
    /\ UNCHANGED <<chunkVars, searchVars, ctxVars, ragVars, storeVars, insightVars, docVars>>

\* The promise of pipeline(...) settles: the instance is assigned to the
\* field, or the error is rethrown and generateEmbedding fails.
PipelineSettles(c) ==
    /\ callerPc[c] = "constructing"
    /\ \E ok \in BOOLEAN :
          IF ok
          THEN /\ embeddingPipeline' = callerInstance[c]
               /\ successes' = successes + 1
               /\ callerPc' = [callerPc EXCEPT ![c] = "initialized"]
          ELSE /\ callerPc' = [callerPc EXCEPT ![c] = "failed"]
               /\ UNCHANGED <<embeddingPipeline, successes>>
    /\ UNCHANGED <<constructions, callerInstance, usedInstances>>
    /\ UNCHANGED <<chunkVars, searchVars, ctxVars, ragVars, storeVars, insightVars, docVars>>

\* await this.embeddingPipeline(text, ...): the field is read after
\* initializeEmbeddingPipeline has returned.
UsePipeline(c) ==
    /\ callerPc[c] = "initialized"
    /\ usedInstances' = usedInstances \cup {embeddingPipeline}
    /\ callerPc' = [callerPc EXCEPT ![c] = "done"]
    /\ UNCHANGED <<embeddingPipeline, constructions, successes, callerInstance>>
    /\ UNCHANGED <<chunkVars, searchVars, ctxVars, ragVars, storeVars, insightVars, docVars>>

\* generateEmbedding has returned or thrown; the caller may call again.
GenerateEmbeddingReturn(c) ==
    /\ callerPc[c] \in {"done", "failed"}
    /\ callerPc' = [callerPc EXCEPT ![c] = "idle"]
    /\ callerInstance' = [callerInstance EXCEPT ![c] = 0]
    /\ UNCHANGED <<embeddingPipeline, constructions, successes, usedInstances>>
    /\ UNCHANGED <<chunkVars, searchVars, ctxVars, ragVars, storeVars, insightVars, docVars>>

NextEmbed ==
    \E c \in Callers :
        \/ GenerateEmbeddingCall(c)
        \/ PipelineSettles(c)
        \/ UsePipeline(c)
        \/ GenerateEmbeddingReturn(c)

SpecEmbed == InitEmbed /\ [][NextEmbed]_vars

\* ------------------------------------------------------------------------
\* generateDailyInsights
\* ------------------------------------------------------------------------
\* Mutant: the values are collected in the order the promises settled.
JoinValues_CompletionOrder(order) == order

\* Promise.all resolves to the values in the order of its argument; the
\* value of an analysis is written as the name of the analysis.
JoinValues(order) == TaskOrder

\* State of the Promise.all promise once the states of its inputs are ts.
PromiseAll(join, ts) ==
    IF join # "pending" THEN join
    ELSE IF \E t \in Tasks : ts[t] = "rejected" THEN "rejected"
    ELSE IF \A t \in Tasks : ts[t] = "fulfilled" THEN "fulfilled"
    ELSE "pending"

InitInsights ==
    /\ ChunkIdle
    /\ SearchIdle
    /\ CtxIdle
    /\ RagIdle
    /\ StoreIdle
    /\ EmbedIdle
    /\ InsightIdle
    /\ DocIdle

\* generateDailyInsights up to its await: the counter is incremented and
\* the three analyses are called one after the other, each running up to
\* its own first await.  One call is followed at a time.
GenerateDailyInsights ==
    /\ dailyOutcome # "waiting"
    /\ \A t \in Tasks : taskState[t] # "pending"
    /\ insightGenerationCount < MaxInsightRuns
    /\ insightGenerationCount' = insightGenerationCount + 1
    /\ taskState' = [t \in Tasks |-> "pending"]
    /\ completionOrder' = <<>>
    /\ joinState' = "pending"
    /\ insights' = <<>>
    /\ dailyOutcome' = "waiting"
    /\ UNCHANGED <<chunkVars, searchVars, ctxVars, ragVars, storeVars, embedVars, docVars>>

\* An analysis returns its insight or rethrows the error of its request.
TaskSettles(t) ==
    /\ taskState[t] = "pending"
    /\ \E ok \in BOOLEAN :
          LET ts == [taskState EXCEPT ![t] = IF ok THEN "fulfilled" ELSE "rejected"]
              js == PromiseAll(joinState, ts)
          IN  /\ taskState' = ts
              /\ joinState' = js
              /\ completionOrder' = Append(completionOrder, t)
              /\ insights' = IF joinState = "pending" /\ js = "fulfilled"
                             THEN JoinValues(Append(completionOrder, t))
                             ELSE insights
    /\ UNCHANGED <<dailyOutcome, insightGenerationCount>>
    /\ UNCHANGED <<chunkVars, searchVars, ctxVars, ragVars, storeVars, embedVars, docVars>>

\* The await of generateDailyInsights resumes: the insights are returned,
\* or the catch block logs and rethrows.
DailyInsightsSettles ==
    /\ dailyOutcome = "waiting"
    /\ joinState \in {"fulfilled", "rejected"}
    /\ dailyOutcome' = IF joinState = "fulfilled" THEN "returned" ELSE "threw"
    /\ UNCHANGED <<taskState, completionOrder, joinState, insights, insightGenerationCount>>
    /\ UNCHANGED <<chunkVars, searchVars, ctxVars, ragVars, storeVars, embedVars, docVars>>

NextInsights ==
    \/ GenerateDailyInsights
    \/ \E t \in Tasks : TaskSettles(t)
    \/ DailyInsightsSettles

SpecInsights == InitInsights /\ [][NextInsights]_vars

\* ------------------------------------------------------------------------
\* cleanContent (RAGService and DocumentService)
\* ------------------------------------------------------------------------
\* Characters: a letter, a space, a tab, a line feed, a carriage return and
\* a character outside ASCII.
CleanChars == {"a", "SP", "TAB", "LF", "CR", "NA"}

\* What String.prototype.trim removes among these characters.
IsTrimSpace(ch) == ch \in {"SP", "TAB", "LF", "CR"}

Rest(str, k) == SubSeq(str, k + 1, Len(str))

\* Length of the run of ch at the head of str.
RECURSIVE RunLength(_, _)
RunLength(str, ch) ==
    IF str # <<>> /\ Head(str) = ch THEN 1 + RunLength(Tail(str), ch) ELSE 0

Repeat(ch, k) == [i \in 1..k |-> ch]

\* .replace(/\r\n/g, '\n')
RECURSIVE NormalizeLineEndings(_)
NormalizeLineEndings(str) ==
    IF str = <<>> THEN <<>>
    ELSE IF Len(str) >= 2 /\ str[1] = "CR" /\ str[2] = "LF"
         THEN <<"LF">> \o NormalizeLineEndings(Rest(str, 2))
         ELSE <<Head(str)>> \o NormalizeLineEndings(Tail(str))

\* A global replace of every maximal run of at least atLeast copies of ch
\* by keep copies: .replace(/\n{3,}/g, '\n\n') and .replace(/ {2,}/g, ' ').
RECURSIVE CollapseRuns(_, _, _, _)
CollapseRuns(str, ch, atLeast, keep) ==
    IF str = <<>> THEN <<>>
    ELSE LET k == RunLength(str, ch)
         IN  IF k = 0 THEN <<Head(str)>> \o CollapseRuns(Tail(str), ch, atLeast, keep)
             ELSE Repeat(ch, IF k >= atLeast THEN keep ELSE k)
                      \o CollapseRuns(Rest(str, k), ch, atLeast, keep)

\* .replace(/\t/g, ' ')
ReplaceTabs(str) == [i \in 1..Len(str) |-> IF str[i] = "TAB" THEN "SP" ELSE str[i]]

\* .replace(/[^\x00-\x7F]/g, '')
RemoveNonAscii(str) == SelectSeq(str, LAMBDA ch : ch # "NA")

\* .trim()
Trim(str) ==
    LET kept == { i \in 1..Len(str) : ~IsTrimSpace(str[i]) }
    IN  IF kept = {} THEN <<>>
        ELSE SubSeq(str, CHOOSE i \in kept : \A j \in kept : i <= j,
                         CHOOSE i \in kept : \A j \in kept : i >= j)

\* RAGService.cleanContent
cleanContentRag(content) ==
    Trim(CollapseRuns(ReplaceTabs(CollapseRuns(NormalizeLineEndings(content),
                                               "LF", 3, 2)),
                      "SP", 2, 1))

\* DocumentService.cleanContent
cleanContentDocument(content) ==
    Trim(RemoveNonAscii(CollapseRuns(ReplaceTabs(CollapseRuns(NormalizeLineEndings(content),
                                                              "LF", 3, 2)),
                                     "SP", 2, 1)))

InitClean ==
    /\ ChunkIdle
    /\ SearchIdle
    /\ CtxIdle
    /\ RagIdle
    /\ StoreIdle
    /\ EmbedIdle
    /\ InsightIdle
    /\ FilterIdle
    /\ UploadIdle
    /\ cleanInput \in SeqsUpTo(CleanChars, MaxCleanLen)
    /\ cleanOut = NotCleaned

\* RAGService.cleanContent on the input, and on its own result.
CleanContentRag ==
    /\ cleanOut.service = "none"
    /\ cleanOut' = [ service |-> "rag",
                     once    |-> cleanContentRag(cleanInput),
                     twice   |-> cleanContentRag(cleanContentRag(cleanInput)) ]
    /\ UNCHANGED <<cleanInput, chunkVars, searchVars, ctxVars, ragVars, storeVars,
                   embedVars, insightVars, filterVars, uploadVars>>

\* DocumentService.cleanContent on the input, and on its own result.
CleanContentDocument ==
    /\ cleanOut.service = "none"
    /\ cleanOut' = [ service |-> "document",
                     once    |-> cleanContentDocument(cleanInput),
                     twice   |-> cleanContentDocument(cleanContentDocument(cleanInput)) ]
    /\ UNCHANGED <<cleanInput, chunkVars, searchVars, ctxVars, ragVars, storeVars,
                   embedVars, insightVars, filterVars, uploadVars>>

NextClean ==
    \/ CleanContentRag
    \/ CleanContentDocument

SpecClean == InitClean /\ [][NextClean]_vars

\* ------------------------------------------------------------------------
\* semanticSearch: the where clause built from options.filters
\* ------------------------------------------------------------------------
\* Metadata of the stored chunks: a reference chunk of document 1, chunks
\* that differ from it in one field, and a chunk of document 2.
ReferenceMeta ==
    [ documentId |-> 1, source |-> "a.pdf", fileType |-> "pdf", category |-> "general",
      userId |-> "u1", tags |-> {"t1"} ]

ChunkMetas ==
    { ReferenceMeta,
      [ReferenceMeta EXCEPT !.fileType = "txt"],
      [ReferenceMeta EXCEPT !.category = "financial_statement"],
      [ReferenceMeta EXCEPT !.userId = "u2"],
      [ReferenceMeta EXCEPT !.tags = {"t2"}],
      [ReferenceMeta EXCEPT !.tags = {}],
      [ReferenceMeta EXCEPT !.documentId = 2, !.source = "b.pdf"] }

\* A collection larger than the default limit.
ElevenChunks == [i \in 1..(DefaultLimit + 1) |-> ReferenceMeta]

\* The filter values a request carries; a field may be absent, and
\* fileType may be the empty string and tags the empty list.
FilterKeys == {"fileType", "category", "userId", "tags"}

FullFilters ==
    [ fileType : {"pdf", ""}, category : {"general"}, userId : {"u1"},
      tags : {{}, {"t1"}, {"t1", "t3"}} ]

FilterChoices == { [k \in K |-> full[k]] : full \in FullFilters, K \in SUBSET FilterKeys }

FilterLimits == {Undefined, 1}

\* The text every stored chunk carries and the query of the request.
FilterContent == <<"a", "b", " ", "e", "f">>

FilterQuery == <<"a", "b", " ", "c", "d">>

\* Mutant: the userId filter is not copied into the where clause.
WhereKeys_NoUserId(hasFilters, f) ==
    IF ~hasFilters THEN {}
    ELSE { k \in DOMAIN f \cap {"fileType", "category"} : f[k] # "" }
             \cup { k \in DOMAIN f \cap {"tags"} : f[k] # {} }

\* The keys of whereClause: if (options.filters.x) whereClause.x = ...
\* copies fileType, category and userId when truthy and tags when its
\* length is not 0; no other field of options.filters is looked at.
WhereKeys(hasFilters, f) ==
    IF ~hasFilters THEN {}
    ELSE { k \in DOMAIN f \cap {"fileType", "category", "userId"} : f[k] # "" }
             \cup { k \in DOMAIN f \cap {"tags"} : f[k] # {} }

\* where: Object.keys(whereClause).length > 0 ? whereClause : undefined
WhereSent(hasFilters, f) ==
    LET keys == WhereKeys(hasFilters, f)
    IN  [defined |-> keys # {}, clause |-> [k \in keys |-> f[k]]]

\* The store's side of the where clause: equality on a field, any-of on
\* tags ($in); a query without where clause matches every chunk.
MatchesWhere(meta, where) ==
    where.defined =>
        \A k \in DOMAIN where.clause :
            IF k = "tags" THEN meta.tags \cap where.clause[k] # {}
            ELSE meta[k] = where.clause[k]

RECURSIVE Matching(_, _)
Matching(stored, where) ==
    IF stored = <<>> THEN <<>>
    ELSE IF MatchesWhere(Head(stored), where)
         THEN <<Head(stored)>> \o Matching(Tail(stored), where)
         ELSE Matching(Tail(stored), where)

\* The matching chunks as the store answers a query: the k-th at distance
\* 0.05, all with the same text.
AsNeighbors(stored) == [i \in 1..Len(stored) |-> [content |-> FilterContent, distance |-> 5]]

\* The stored chunks behind a list of results or sources, whose ids are
\* positions in the store's answer.
StoredOf(matching, chunkList) == [i \in 1..Len(chunkList) |-> matching[chunkList[i].id]]

ChunksOf(results) == [i \in 1..Len(results) |-> results[i].chunk]

InitFilter ==
    /\ ChunkIdle
    /\ SearchIdle
    /\ CtxIdle
    /\ RagIdle
    /\ StoreIdle
    /\ EmbedIdle
    /\ InsightIdle
    /\ CleanIdle
    /\ UploadIdle
    /\ filterStore \in SeqsUpTo(ChunkMetas, MaxFilterChunks) \cup {ElevenChunks}
    /\ \/ filterOptions \in [hasFilters : {TRUE}, filters : FilterChoices, limit : FilterLimits]
       \/ filterOptions \in [hasFilters : {FALSE}, filters : {<<>>}, limit : FilterLimits]
    /\ filterCall = NoFilterCall

\* semanticSearch on an initialized service with the request's filters.
FilteredSearch ==
    /\ filterCall.kind = "none"
    /\ LET where    == WhereSent(filterOptions.hasFilters, filterOptions.filters)
           matching == Matching(filterStore, where)
           out      == semanticSearch(TRUE, AsNeighbors(matching), FilterQuery,
                                      filterOptions.limit, Undefined, "none")
       IN  filterCall' = [ NoFilterCall EXCEPT
                             !.kind = "search",
                             !.whereDefined = where.defined,
                             !.whereKeys = DOMAIN where.clause,
                             !.results = StoredOf(matching, ChunksOf(out.results)) ]
    /\ UNCHANGED <<filterStore, filterOptions>>
    /\ UNCHANGED <<chunkVars, searchVars, ctxVars, ragVars, storeVars, embedVars,
                   insightVars, cleanVars, uploadVars>>

\* analyzeDocument: filters: analyzeDto.documentId ? { source: documentId }
\* : undefined, then the search, the context and the answer.
AnalyzeWithDocumentId ==
    /\ filterCall.kind = "none"
    /\ \E documentId \in {Undefined, 1, 2} :
          LET hasFilters == documentId # Undefined
              filters    == IF hasFilters THEN [source |-> documentId] ELSE <<>>
              where      == WhereSent(hasFilters, filters)
              matching   == Matching(filterStore, where)
              out        == analyzeDocument(TRUE, AsNeighbors(matching), FilterQuery,
                                [i \in 1..Len(matching) |-> 60], "none",
                                [status |-> "ok", len |-> 200, tokens |-> 50])
          IN  filterCall' = [ NoFilterCall EXCEPT
                                !.kind = IF out.status = "returned" THEN "analyze"
                                         ELSE "analyzeThrows",
                                !.documentId = documentId,
                                !.whereDefined = where.defined,
                                !.whereKeys = DOMAIN where.clause,
                                !.results = StoredOf(matching, ChunksOf(out.searchResults)),
                                !.sources = StoredOf(matching, out.sources) ]
    /\ UNCHANGED <<filterStore, filterOptions>>
    /\ UNCHANGED <<chunkVars, searchVars, ctxVars, ragVars, storeVars, embedVars,
                   insightVars, cleanVars, uploadVars>>

NextFilter ==
    \/ FilteredSearch
    \/ AnalyzeWithDocumentId

SpecFilter == InitFilter /\ [][NextFilter]_vars

\* ------------------------------------------------------------------------
\* DocumentService.processFile and RAGController.uploadDocument
\* ------------------------------------------------------------------------
\* The keyword rules of determineCategory in the order of its if
\* statements.  A file name is the set of keywords its lowercased text
\* includes.
CategoryRules ==
    << [ category |-> "financial_statement",
         keywords |-> {"balance", "income", "statement", "financial", "p&l", "profit"} ],
       [ category |-> "investment_report",
         keywords |-> {"investment", "portfolio", "fund", "research", "analysis"} ],
       [ category |-> "market_research",
         keywords |-> {"market", "trend", "sector", "industry", "outlook"} ],
       [ category |-> "business_plan",
         keywords |-> {"business", "plan", "strategy", "model", "proposal"} ],
       [ category |-> "transaction_record",
         keywords |-> {"transaction", "trade", "record", "history", "log"} ],
       [ category |-> "regulatory_doc",
         keywords |-> {"regulation", "compliance", "policy", "legal", "regulatory"} ] >>

RECURSIVE DetermineFrom(_, _)
DetermineFrom(keywords, i) ==
    IF i > Len(CategoryRules) THEN "general"
    ELSE IF CategoryRules[i].keywords \cap keywords # {} THEN CategoryRules[i].category
    ELSE DetermineFrom(keywords, i + 1)

determineCategory(keywords) == DetermineFrom(keywords, 1)

\* The keywords enumerated in file names: the first and the last of every rule.
SampleKeywords ==
    { "balance", "profit", "investment", "analysis", "market", "outlook",
      "business", "proposal", "transaction", "log", "regulation", "regulatory" }

FileNames == { ks \in SUBSET SampleKeywords : Cardinality(ks) <= MaxKeywords }

\* Extensions of the uploaded file and validateFile's list of allowed ones.
AllowedTypes == {".pdf", ".docx", ".txt", ".md", ".json"}

FileExtensions == {".pdf", ".txt", ".exe"}

\* The fields of the upload DTO: a field is absent or carries a value.
DtoCategories == { AbsentProp(""), [state |-> "value", value |-> "market_research"] }

DtoTags == { AbsentProp({}), [state |-> "value", value |-> {}],
             [state |-> "value", value |-> {"q4"}] }

\* The object literal of uploadDocument: { category: uploadDto.category,
\* tags: uploadDto.tags, ... }: both properties are present, with the value
\* undefined when the DTO has none.
LiteralProp(p) == IF p.state = "absent" THEN [p EXCEPT !.state = "undefined"] ELSE p

ControllerMetadata(category, tags) ==
    [passed |-> TRUE, category |-> LiteralProp(category), tags |-> LiteralProp(tags)]

\* metadata?.x || dflt: a category is a non-empty string and an array is
\* truthy even when empty.
OrElse(p, dflt) == IF p.state = "value" THEN p.value ELSE dflt

\* ...metadata behind the defaults: every property metadata has, the
\* undefined ones included, replaces the default.
SpreadOver(dflt, p, empty) ==
    IF p.state = "absent" THEN [defined |-> TRUE, value |-> dflt]
    ELSE IF p.state = "undefined" THEN [defined |-> FALSE, value |-> empty]
    ELSE [defined |-> TRUE, value |-> p.value]

\* fileType: fileExtension.slice(1)
FileTypeOf(ext) ==
    CASE ext = ".pdf"  -> "pdf"
      [] ext = ".docx" -> "docx"
      [] ext = ".txt"  -> "txt"
      [] ext = ".md"   -> "md"
      [] ext = ".json" -> "json"
      [] OTHER         -> "exe"

\* The processedMetadata of processFile.
processFile(keywords, ext, metadata) ==
    [ returned |-> TRUE,
      fileType |-> FileTypeOf(ext),
      category |-> SpreadOver(OrElse(metadata.category, determineCategory(keywords)),
                              metadata.category, ""),
      tags     |-> SpreadOver(OrElse(metadata.tags, {}), metadata.tags, {}) ]

\* The staged path of the request.
StagedPath == "upload"

InitUpload ==
    /\ ChunkIdle
    /\ SearchIdle
    /\ CtxIdle
    /\ RagIdle
    /\ StoreIdle
    /\ EmbedIdle
    /\ InsightIdle
    /\ CleanIdle
    /\ FilterIdle
    /\ uploadReq \in [ caller : {"controller", "direct"}, ext : FileExtensions,
                       tooBig : BOOLEAN, keywords : FileNames,
                       category : DtoCategories, tags : DtoTags ]
    /\ uploadPc = "received"
    /\ staging = {}
    /\ fileOut = NoFileOut
    /\ uploadOut = NoUploadOut

\* processFile called with the metadata as it is, outside the upload
\* controller; the extension is one processFile reads.
ProcessFileDirect ==
    /\ uploadPc = "received"
    /\ uploadReq.caller = "direct"
    /\ uploadReq.ext \in AllowedTypes
    /\ fileOut' = processFile(uploadReq.keywords, uploadReq.ext,
                      [passed |-> TRUE, category |-> uploadReq.category,
                       tags |-> uploadReq.tags])
    /\ uploadPc' = "returned"
    /\ UNCHANGED <<uploadReq, staging, uploadOut>>
    /\ UNCHANGED <<chunkVars, searchVars, ctxVars, ragVars, storeVars, embedVars,
                   insightVars, cleanVars, filterVars>>

\* uploadDocument: validateFile throws for an extension outside the list
\* or a file over 10MB, and the catch block answers with an error.
UploadValidate ==
    /\ uploadPc = "received"
    /\ uploadReq.caller = "controller"
    /\ IF uploadReq.ext \notin AllowedTypes \/ uploadReq.tooBig
       THEN /\ uploadPc' = "done"
            /\ uploadOut' = [uploadOut EXCEPT !.status = "error", !.rejected = TRUE]
       ELSE /\ uploadPc' = "validated"
            /\ UNCHANGED uploadOut
    /\ UNCHANGED <<uploadReq, staging, fileOut>>
    /\ UNCHANGED <<chunkVars, searchVars, ctxVars, ragVars, storeVars, embedVars,
                   insightVars, cleanVars, filterVars>>

\* saveUploadedFile: the directory is made and the file written, or one of
\* the two throws and nothing is staged.
UploadSave ==
    /\ uploadPc = "validated"
    /\ \E ok \in BOOLEAN :
          IF ok
          THEN /\ staging' = staging \cup {StagedPath}
               /\ uploadPc' = "saved"
               /\ uploadOut' = [uploadOut EXCEPT !.saved = TRUE]
          ELSE /\ uploadPc' = "done"
               /\ uploadOut' = [uploadOut EXCEPT !.status = "error"]
               /\ UNCHANGED staging
    /\ UNCHANGED <<uploadReq, fileOut>>
    /\ UNCHANGED <<chunkVars, searchVars, ctxVars, ragVars, storeVars, embedVars,
                   insightVars, cleanVars, filterVars>>

\* processFile on the staged file: the extraction throws and the catch
\* block of uploadDocument answers with an error, or the metadata is built.
UploadProcessFile ==
    /\ uploadPc = "saved"
    /\ \E ok \in BOOLEAN :
          IF ok
          THEN /\ fileOut' = processFile(uploadReq.keywords, uploadReq.ext,
                                 ControllerMetadata(uploadReq.category, uploadReq.tags))
               /\ uploadPc' = "extracted"
               /\ UNCHANGED uploadOut
          ELSE /\ uploadPc' = "done"
               /\ uploadOut' = [uploadOut EXCEPT !.status = "error",
                                                 !.extractionFailed = TRUE]
               /\ UNCHANGED fileOut
    /\ UNCHANGED <<uploadReq, staging>>
    /\ UNCHANGED <<chunkVars, searchVars, ctxVars, ragVars, storeVars, embedVars,
                   insightVars, cleanVars, filterVars>>

\* ragService.processDocument returns a result, success or failure; it
\* catches its own errors.  A call that does not return leaves the request
\* pending.
UploadProcessDocument ==
    /\ uploadPc = "extracted"
    /\ \E outcome \in {"success", "failure", "hangs"} :
          /\ uploadPc' = IF outcome = "hangs" THEN "pending" ELSE "indexed"
          /\ uploadOut' = [uploadOut EXCEPT !.success = (outcome = "success")]
    /\ UNCHANGED <<uploadReq, staging, fileOut>>
    /\ UNCHANGED <<chunkVars, searchVars, ctxVars, ragVars, storeVars, embedVars,
                   insightVars, cleanVars, filterVars>>

\* deleteFile: unlink, whose error is logged and swallowed; then the
\* result is returned.
UploadDeleteFile ==
    /\ uploadPc = "indexed"
    /\ \E ok \in BOOLEAN :
          /\ staging' = IF ok THEN staging \ {StagedPath} ELSE staging
          /\ uploadOut' = [uploadOut EXCEPT !.status = "returned", !.unlinkCalled = TRUE,
                                            !.unlinkFailed = ~ok]
    /\ uploadPc' = "done"
    /\ UNCHANGED <<uploadReq, fileOut>>
    /\ UNCHANGED <<chunkVars, searchVars, ctxVars, ragVars, storeVars, embedVars,
                   insightVars, cleanVars, filterVars>>

NextUpload ==
    \/ ProcessFileDirect
    \/ UploadValidate
    \/ UploadSave
    \/ UploadProcessFile
    \/ UploadProcessDocument
    \/ UploadDeleteFile

SpecUpload == InitUpload /\ [][NextUpload]_vars

\* ------------------------------------------------------------------------
\* Properties of createDocumentChunks (checked under SpecChunk)
\* ------------------------------------------------------------------------
InEmitted(i) == \E k \in 1..Len(windows) :
    windows[k].emitted /\ windows[k].from <= i /\ i < windows[k].end

InDiscarded(i) == \E k \in 1..Len(windows) :
    ~windows[k].emitted /\ windows[k].from <= i /\ i < windows[k].end

Frontier == IF windows = <<>> THEN 0 ELSE windows[Len(windows)].end

\* C1: once a window's end has reached the end of the token sequence the
\* loop ends: a window ending at tokens.length is the last window taken.
C1_LoopEndsAtTextEnd ==
    \A k \in 1..Len(windows) :
        windows[k].end = Len(tokens) => k = Len(windows)

\* C2: the chunks a call returns all carry totalChunks = number of chunks
\* returned, and their chunkIndex values are 0..totalChunks-1 in order.
C2_ChunkIndexContiguous ==
    pc = "done" =>
        \A i \in 1..Len(chunks) :
            /\ chunks[i].totalChunks = Len(chunks)
            /\ chunks[i].chunkIndex = i - 1

C2_Witness ==
    /\ pc = "done"
    /\ Len(chunks) >= 2
    /\ \E k \in 1..Len(windows) : ~windows[k].emitted

\* C3: with chunkSize 500 and chunkOverlap 50 a 1200-token text with no
\* short window yields exactly the chunks starting at 0, 450 and 900
\* (ends 500, 950, 1200); the k-th chunk starts at k*(chunkSize-chunkOverlap).
C3_ExampleOffsets ==
    (config = RealConfig /\ tokens = UniformText(1200, 4)) =>
        /\ Len(chunks) <= 3
        /\ \A k \in 1..Len(chunks) :
              /\ chunks[k].from = (k - 1) * (config.chunkSize - config.chunkOverlap)
              /\ chunks[k].end = Min2(chunks[k].from + config.chunkSize, Len(tokens))

\* C4: every token index the loop has passed lies in the window of an
\* emitted chunk unless it lies in a discarded window, and a call that
\* returns has passed every token.
C4_ChunkCoverage ==
    /\ \A i \in 0..(Len(tokens) - 1) :
          i < Frontier => (InEmitted(i) \/ InDiscarded(i))
    /\ pc = "done" => Frontier = Len(tokens)

C4_Witness ==
    /\ pc = "done"
    /\ Len(chunks) >= 1
    /\ \E i \in 0..(Len(tokens) - 1) : InDiscarded(i) /\ ~InEmitted(i)
    /\ \E i \in 0..(Len(tokens) - 1) :
          Cardinality({ k \in 1..Len(windows) :
              windows[k].emitted /\ windows[k].from <= i /\ i < windows[k].end }) >= 2

\* ------------------------------------------------------------------------
\* Properties of semanticSearch (checked under SpecSearch)
\* ------------------------------------------------------------------------
\* The threshold a call asked for: the documented default when omitted.
RequestedThreshold(call) ==
    IF call.threshold = Undefined THEN DefaultThreshold ELSE call.threshold

ResultIds(call) == { call.results[i].chunk.id : i \in 1..Len(call.results) }

SameRelevance(a, b) == a.relevance.num * b.relevance.den = b.relevance.num * a.relevance.den

\* C5: for the same store content, query, limit and filters, a search with
\* the higher of two thresholds in [0,1] (0 included) returns no more
\* results than the search with the lower one.
C5_ThresholdMonotone ==
    ( /\ lastSearch.called /\ prevSearch.called
      /\ lastSearch.threshold # Undefined /\ prevSearch.threshold # Undefined ) =>
        /\ prevSearch.threshold <= lastSearch.threshold
              => Len(lastSearch.results) <= Len(prevSearch.results)
        /\ lastSearch.threshold <= prevSearch.threshold
              => Len(prevSearch.results) <= Len(lastSearch.results)

\* C6: every neighbor the store returned with distance d gets similarity
\* 1 - d (d = 0 included) and is in the result list iff 1 - d >= threshold.
C6_SimilarityAndThreshold ==
    lastSearch.called =>
        \A k \in 1..Len(lastSearch.returned) :
            LET s == 100 - lastSearch.returned[k].distance
            IN  /\ (k \in ResultIds(lastSearch)) <=> (s >= RequestedThreshold(lastSearch))
                /\ \A i \in 1..Len(lastSearch.results) :
                       lastSearch.results[i].chunk.id = k
                           => lastSearch.results[i].similarity = s

\* C7: the returned list is in non-increasing relevance order and results
\* of equal relevance keep the order in which the store returned them.
C7_SortedStable ==
    \A i \in 1..Len(lastSearch.results) : \A j \in 1..Len(lastSearch.results) :
        i < j =>
            /\ ~RelevanceLess(lastSearch.results[i], lastSearch.results[j])
            /\ SameRelevance(lastSearch.results[i], lastSearch.results[j])
                   => lastSearch.results[i].chunk.id < lastSearch.results[j].chunk.id

C7_Witness ==
    /\ Len(lastSearch.results) >= 3
    /\ \E i \in 1..Len(lastSearch.results) : \E j \in 1..Len(lastSearch.results) :
          /\ i < j
          /\ SameRelevance(lastSearch.results[i], lastSearch.results[j])
          /\ lastSearch.results[i].chunk.content # lastSearch.results[j].chunk.content
    /\ \E i \in 1..Len(lastSearch.results) : \E j \in 1..Len(lastSearch.results) :
          /\ i < j
          /\ lastSearch.results[i].chunk.id > lastSearch.results[j].chunk.id

\* Number of query words that are a substring of, or contain, a content word.
MatchingQueryWords(q, content) ==
    LET qw == SplitWhitespace(ToLowerCase(q))
        cw == SplitWhitespace(ToLowerCase(content))
    IN  Cardinality({ i \in 1..Len(qw) :
            \E j \in 1..Len(cw) : Includes(cw[j], qw[i]) \/ Includes(qw[i], cw[j]) })

ExampleQuery == <<"a", "b", " ", "c", "d">>

ExampleContent == <<"a", "b", " ", "e", "f">>

\* C8: every result has relevance = 0.8*similarity + 0.2*keywordScore with
\* keywordScore = matching query words / query words; a chunk of similarity
\* 0.95 and keyword overlap 1/2 has relevance 0.86 and is returned at
\* threshold 0.9.
C8_RelevanceBlend ==
    /\ \A i \in 1..Len(lastSearch.results) :
          LET r == lastSearch.results[i]
              n == Len(SplitWhitespace(ToLowerCase(query)))
              m == MatchingQueryWords(query, r.chunk.content)
          IN  \* num/den = 0.8 * similarity/100 + 0.2 * m/n
              r.relevance.num * (1000 * n) = r.relevance.den * (8 * r.similarity * n + 200 * m)
    /\ ( /\ lastSearch.called /\ lastSearch.threshold = 90 /\ query = ExampleQuery ) =>
          \A k \in 1..Len(lastSearch.returned) :
              lastSearch.returned[k] = [content |-> ExampleContent, distance |-> 5] =>
                  \E i \in 1..Len(lastSearch.results) :
                      /\ lastSearch.results[i].chunk.id = k
                      /\ MatchingQueryWords(query, ExampleContent) * 2
                             = Len(SplitWhitespace(ToLowerCase(query)))
                      /\ lastSearch.results[i].relevance.num * 100
                             = 86 * lastSearch.results[i].relevance.den

C8_Witness ==
    /\ lastSearch.called /\ lastSearch.threshold = 90 /\ query = ExampleQuery
    /\ \E i \in 1..Len(lastSearch.results) :
          /\ lastSearch.results[i].chunk.content = ExampleContent
          /\ lastSearch.results[i].similarity = 95
          /\ lastSearch.results[i].relevance.num * 100 = 86 * lastSearch.results[i].relevance.den

\* ------------------------------------------------------------------------
\* Properties of buildContext (checked under SpecCtx)
\* ------------------------------------------------------------------------
RECURSIVE SumTokens(_, _)
SumTokens(results, k) ==
    IF k = 0 THEN 0 ELSE SumTokens(results, k - 1) + results[k].chunkTokens

\* Token counts of the formatted chunks appended to the context string.
ContextTokens ==
    LET appended == [i \in 1..Len(ctxOut.context) |-> ctxResults[ctxOut.context[i]]]
    IN  SumTokens(appended, Len(appended))

\* C9: the formatted chunks appended to the context never sum to more
\* than maxTokens.
C9_ContextBudget == ContextTokens <= maxTokens

C9_Witness ==
    /\ ctxPc = "done"
    /\ Len(ctxOut.context) >= 2
    /\ Len(ctxOut.context) < Len(ctxResults)
    /\ ContextTokens + 60 > maxTokens

\* C10: the sources are the longest prefix of the result list that fits:
\* packing stops at the first chunk that would exceed maxTokens, nothing
\* after it is included, and a first chunk over maxTokens gives an empty
\* context with no sources.
C10_SourcesArePrefix ==
    ctxPc = "done" =>
        \E k \in 0..Len(ctxResults) :
            /\ ctxOut.sources = [i \in 1..k |-> ctxResults[i].chunk]
            /\ ctxOut.context = [i \in 1..k |-> ctxResults[i].chunk.id]
            /\ SumTokens(ctxResults, k) <= maxTokens
            /\ k < Len(ctxResults) => SumTokens(ctxResults, k + 1) > maxTokens

C10_Witness ==
    /\ ctxPc = "done"
    /\ Len(ctxOut.sources) = 1
    /\ Len(ctxResults) = 3
    /\ ctxResults[2].chunkTokens + ctxOut.tokenCount > maxTokens
    /\ ctxResults[3].chunkTokens + ctxOut.tokenCount <= maxTokens

C10_WitnessEmpty ==
    /\ ctxPc = "done"
    /\ ctxResults # <<>>
    /\ ctxResults[1].chunkTokens > maxTokens
    /\ ctxOut.sources = <<>>

\* ------------------------------------------------------------------------
\* Properties of generateRAGResponse / analyzeDocument (checked under SpecRag)
\* ------------------------------------------------------------------------
\* The search results whose chunk was packed into the context.
UsedResults ==
    SelectSeq(ragCall.searchResults,
              LAMBDA r : \E i \in 1..Len(ragCall.sources) : ragCall.sources[i] = r.chunk)

Answered == ragCall.status = "returned" /\ ~ragCall.canned

\* C11: the confidence of every RAGResponse returned lies in [0, 1].
C11_ConfidenceBounds ==
    ragCall.status = "returned" =>
        /\ ragCall.confidence.den > 0
        /\ 0 <= ragCall.confidence.num
        /\ ragCall.confidence.num <= ragCall.confidence.den

C11_Witness ==
    /\ Answered
    /\ Len(ragCall.searchResults) = 1
    /\ ragCall.responseLen > 1000
    /\ \E k \in 1..Len(storeNeighbors) : storeNeighbors[k].distance > 100
    /\ 0 < ragCall.confidence.num
    /\ ragCall.confidence.num < ragCall.confidence.den

\* C12: the confidence of an answer is min(1, 0.7*avg similarity of the
\* used sources + 0.2*min(1, used sources/5) + 0.1*min(1, answerLength/1000)),
\* also when fewer chunks were packed than the search returned.
C12_ConfidenceFromUsedSources ==
    (Answered /\ Len(UsedResults) > 0) =>
        LET n   == Len(UsedResults)
            raw == 70 * SumSimilarity(UsedResults, n)
                   + 400 * Min2(n, 5) * n
                   + Min2(ragCall.responseLen, 1000) * n
        IN  ragCall.confidence.num * (10000 * n)
                = ragCall.confidence.den * Min2(raw, 10000 * n)

\* Every chunk the store would return for a generateRAGResponse call is
\* under the fixed 0.7 threshold (true of an empty store).
AllBelowRagThreshold ==
    \A k \in 1..Len(storeNeighbors) : 100 - storeNeighbors[k].distance < RagThreshold

\* C13: when the search yields nothing (service uninitialized, store empty
\* or every neighbor under the threshold) semanticSearch returns [] and
\* generateRAGResponse returns the canned response: no sources, empty
\* context, tokenCount 0, confidence 0, nothing thrown, no generation call.
C13_EmptySearchIsCanned ==
    ( /\ ragCall.kind = "query"
      /\ \/ ~isInitialized
         \/ ragCall.failure = "none" /\ AllBelowRagThreshold ) =>
        /\ ragCall.searchStatus = "ok"
        /\ ragCall.searchResults = <<>>
        /\ ragCall.status = "returned"
        /\ ragCall.canned
        /\ ragCall.sources = <<>>
        /\ ragCall.context = <<>>
        /\ ragCall.tokenCount = 0
        /\ ragCall.confidence.num = 0
        /\ ragCall.claudeCalls = 0

C13_Witness ==
    /\ ragCall.kind = "query"
    /\ isInitialized
    /\ storeNeighbors # <<>>
    /\ AllBelowRagThreshold
    /\ ragCall.canned
    /\ ragCall.claudeCalls = 0

\* C19: on an initialized service a failing embedding call or store query
\* makes semanticSearch throw, and the generateRAGResponse / analyzeDocument
\* call built on it throws too without calling the generation service.
C19_SearchFailurePropagates ==
    (isInitialized /\ ragCall.kind # "none" /\ ragCall.failure # "none") =>
        /\ ragCall.searchStatus = "throws"
        /\ ragCall.status = "throws"
        /\ ragCall.claudeCalls = 0

C19_Witness ==
    /\ isInitialized
    /\ ragCall.kind = "query"
    /\ ragCall.failure = "query"
    /\ ragCall.status = "throws"
    /\ ~AllBelowRagThreshold

\* ------------------------------------------------------------------------
\* Properties of the store operations
\* ------------------------------------------------------------------------
\* The chunks of the document of the last operation before that operation.
IdsBefore == { c \in lastOp.before : c.documentId = lastOp.documentId }

\* C14: when the store answers, deleteDocument(d) on a store holding N >= 1
\* chunks of d removes exactly those N ids, keeps every other chunk and
\* returns true; a delete for an id without chunks, among them the delete
\* that follows a successful one, returns false, throws nothing and leaves
\* the store as it was.
C14_DeleteExactlyOwnChunks ==
    (lastOp.op = "delete" /\ isInitialized /\ lastOp.failure = "none") =>
        /\ lastOp.status = "returned"
        /\ IdsBefore # {} =>
              /\ lastOp.success
              /\ lastOp.chunkCount = Cardinality(IdsBefore)
              /\ collection = lastOp.before \ IdsBefore
              /\ \A c \in lastOp.before : c.documentId # lastOp.documentId => c \in collection
        /\ IdsBefore = {} =>
              /\ ~lastOp.success
              /\ collection = lastOp.before
        /\ lastOp.prevRemoved > 0 => (~lastOp.success /\ collection = lastOp.before)

\* A document of 7 chunks was deleted while another document stayed, and
\* the delete was repeated.
C14_Witness ==
    /\ lastOp.op = "delete"
    /\ isInitialized
    /\ lastOp.failure = "none"
    /\ lastOp.prevRemoved = 7
    /\ ~lastOp.success
    /\ collection # {}

\* C15: when the embedding of a chunk or the store write fails,
\* processDocument returns success=false and the store holds no chunk of
\* the document; whenever it returns success=false the store content is
\* what it was before the call.
C15_NoPartialIndexing ==
    (lastOp.op = "process" /\ lastOp.status = "returned") =>
        /\ lastOp.failure \in {"embedding", "add"} =>
              /\ ~lastOp.success
              /\ IdsOfDocument(collection, nextDoc) = {}
        /\ ~lastOp.success => collection = lastOp.before

\* The embedding of the second of several chunks failed on a store that
\* holds another document.
C15_Witness ==
    /\ lastOp.op = "process"
    /\ isInitialized
    /\ lastOp.failure = "embedding"
    /\ lastOp.chunkCount >= 2
    /\ ~lastOp.success
    /\ collection # {}

\* C16: when initializeRAGSystem fails, onModuleInit does not throw,
\* isInitialized is false, and every later operation returns its
\* unavailable answer (search [], delete false, process success=false,
\* stats isInitialized=false and totalDocuments=0) without throwing and
\* without a call to the store.
C16_InitFailureDegrades ==
    (initState.pc = "started" /\ initState.failure # "none") =>
        /\ ~initState.threw
        /\ ~isInitialized
        /\ lastOp.op # "none" =>
              /\ lastOp.status = "returned"
              /\ lastOp.storeReads = 0
              /\ lastOp.storeWrites = 0
              /\ collection = lastOp.before
        /\ lastOp.op = "search" => lastOp.results = 0
        /\ lastOp.op = "delete" => ~lastOp.success
        /\ lastOp.op = "process" => (~lastOp.success /\ lastOp.chunksCreated = 0)
        /\ lastOp.op = "stats" => (~lastOp.statsInitialized /\ lastOp.totalDocuments = 0)

\* The collection could not be opened and a delete was asked on a store
\* that holds the chunks of the document.
C16_Witness ==
    /\ initState.pc = "started"
    /\ initState.failure = "collection"
    /\ lastOp.op = "delete"
    /\ IdsOfDocument(collection, lastOp.documentId) # {}
    /\ ~lastOp.success

\* C18: on an empty text or a text of fewer than 50 trimmed characters
\* createDocumentChunks returns the empty sequence, and whenever it returns
\* no chunk processDocument returns success=false and chunksCreated=0 and
\* the store is what it was.
C18_ZeroChunksIsFailure ==
    (lastOp.op = "process" /\ isInitialized) =>
        /\ (lastOp.textLen = 0 \/ lastOp.textChars < MinChunkChars) =>
              (lastOp.status = "returned" /\ lastOp.chunkCount = 0)
        /\ (lastOp.status = "returned" /\ lastOp.chunkCount = 0) =>
              /\ ~lastOp.success
              /\ lastOp.chunksCreated = 0
              /\ collection = lastOp.before

\* A text of two short words far apart: every window is under 50
\* characters, none of the calls fails, and the store holds another document.
C18_Witness ==
    /\ lastOp.op = "process"
    /\ isInitialized
    /\ lastOp.status = "returned"
    /\ lastOp.chunkCount = 0
    /\ lastOp.textChars >= MinChunkChars
    /\ lastOp.failure = "none"
    /\ ~lastOp.success
    /\ collection # {}

\* ------------------------------------------------------------------------
\* Properties of the embedding pipeline
\* ------------------------------------------------------------------------
\* C17: the embedding model is constructed at most once: no two calls of
\* pipeline(...) are in flight together, at most one of them ever
\* resolves, and every embedding is computed by the same instance.
C17_ConstructedOnce ==
    /\ Cardinality({ c \in Callers : callerPc[c] = "constructing" }) <= 1
    /\ successes <= 1
    /\ Cardinality(usedInstances) <= 1

\* ------------------------------------------------------------------------
\* Properties of generateDailyInsights
\* ------------------------------------------------------------------------
AllFulfilled == \A t \in Tasks : taskState[t] = "fulfilled"

SomeRejected == \E t \in Tasks : taskState[t] = "rejected"

\* C20: the three analyses are started together; generateDailyInsights
\* returns only when all three succeeded, and then the insights in the
\* order spending, risk, strategy; it throws when one of them failed, in
\* whatever order they settle.
C20_AllOrNothingJoin ==
    /\ (\E t \in Tasks : taskState[t] # "notStarted") =>
           (\A t \in Tasks : taskState[t] # "notStarted")
    /\ dailyOutcome = "returned" =>
           (AllFulfilled /\ insights = <<"spending", "risk", "strategy">>)
    /\ dailyOutcome = "threw" => (SomeRejected /\ insights = <<>>)
    /\ (dailyOutcome \in {"returned", "threw"} /\ SomeRejected) => dailyOutcome = "threw"
    /\ (dailyOutcome = "waiting" /\ SomeRejected) => joinState = "rejected"
    /\ (dailyOutcome = "waiting" /\ AllFulfilled) => joinState = "fulfilled"

\* The analyses settled in the reverse of the order they were passed and
\* the insights were returned.
C20_Witness ==
    /\ dailyOutcome = "returned"
    /\ completionOrder = <<"strategy", "risk", "spending">>

\* The first analysis to settle failed while the others were pending, the
\* others succeeded later, and the call threw.
C20_WitnessRejected ==
    /\ dailyOutcome = "threw"
    /\ Len(completionOrder) = 3
    /\ taskState[completionOrder[1]] = "rejected"
    /\ taskState[completionOrder[2]] = "fulfilled"
    /\ taskState[completionOrder[3]] = "fulfilled"

\* C21: after a successful processDocument, chunksCreated is the number of
\* chunks the store holds under the returned documentId, they were added
\* by one store call, and the count of the store grew by chunksCreated;
\* getCollectionStats reports that count as totalDocuments.
C21_ChunksCreatedMatchesStore ==
    /\ (lastOp.op = "process" /\ lastOp.success) =>
          /\ lastOp.chunksCreated = Cardinality(IdsOfDocument(collection, lastOp.documentId))
          /\ IdsOfDocument(lastOp.before, lastOp.documentId) = {}
          /\ lastOp.storeWrites = 1
          /\ Cardinality(collection) = Cardinality(lastOp.before) + lastOp.chunksCreated
    /\ (lastOp.op = "stats" /\ lastOp.status = "returned" /\ isInitialized) =>
          lastOp.totalDocuments = Cardinality(collection)

\* A document of 7 chunks was indexed next to another document.
C21_Witness ==
    /\ lastOp.op = "process"
    /\ lastOp.success
    /\ lastOp.chunksCreated = 7
    /\ lastOp.before # {}

\* ------------------------------------------------------------------------
\* Properties of cleanContent
\* ------------------------------------------------------------------------
HasPair(str, a, b) == \E i \in 1..(Len(str) - 1) : str[i] = a /\ str[i + 1] = b

HasRun(str, ch, k) == \E i \in 1..(Len(str) - k + 1) : \A j \in 0..(k - 1) : str[i + j] = ch

IsClean(str) ==
    /\ \A i \in 1..Len(str) : str[i] # "TAB"
    /\ ~HasPair(str, "CR", "LF")
    /\ ~HasRun(str, "SP", 2)
    /\ ~HasRun(str, "LF", 3)
    /\ str # <<>> => (~IsTrimSpace(str[1]) /\ ~IsTrimSpace(str[Len(str)]))

\* C22: the cleaned text of either cleanContent holds no tab, no \r\n
\* pair, no two spaces in a row, no three newlines in a row and no
\* whitespace at its ends, and cleaning it again returns it unchanged.
C22_CleanPostcondition ==
    cleanOut.service # "none" =>
        (IsClean(cleanOut.once) /\ cleanOut.twice = cleanOut.once)

\* RAGService.cleanContent alone already breaks the postcondition.
C22_RagServiceDirty ==
    cleanOut.service = "rag" /\ ~IsClean(cleanOut.once)

\* ------------------------------------------------------------------------
\* Properties of the discarded windows
\* ------------------------------------------------------------------------
\* The cursor after window k: the start of the next window, or startIdx
\* when k is the latest window.
CursorAfter(k) == IF k < Len(windows) THEN windows[k + 1].from ELSE startIdx

\* Number of chunks pushed by the first k windows.
EmittedUpTo(k) == Cardinality({ j \in 1..k : windows[j].emitted })

\* C23: a window of fewer than 50 trimmed characters is not emitted, the
\* cursor after it is the window end and the chunk counter is not
\* advanced; every chunk has at least 50 trimmed characters and a
\* tokenCount that is the length of its window, between 1 and chunkSize.
C23_ShortWindowsDiscarded ==
    /\ chunkIndex = EmittedUpTo(Len(windows))
    /\ Len(chunks) = chunkIndex
    /\ \A k \in 1..Len(windows) :
          ~windows[k].emitted =>
              /\ TrimmedLen(tokens, windows[k].from, windows[k].end) < MinChunkChars
              /\ CursorAfter(k) = windows[k].end
    /\ \A k \in 1..Len(windows) :
          windows[k].emitted =>
              LET c == chunks[EmittedUpTo(k)]
              IN  /\ c.from = windows[k].from /\ c.end = windows[k].end
                  /\ c.contentLen >= MinChunkChars
                  /\ c.tokenCount = c.end - c.from
                  /\ c.tokenCount >= 1
                  /\ c.tokenCount <= config.chunkSize

\* A short window was discarded and the window that starts at its end was
\* emitted as the first chunk.
C23_Witness ==
    /\ pc = "done"
    /\ Len(windows) >= 2
    /\ ~windows[1].emitted
    /\ windows[2].emitted
    /\ windows[2].from = windows[1].end
    /\ chunks[1].chunkIndex = 0

\* ------------------------------------------------------------------------
\* Properties of the filtered search
\* ------------------------------------------------------------------------
\* The limit of the request: 10 when omitted.
RequestedLimit == IF filterOptions.limit = Undefined THEN 10 ELSE filterOptions.limit

\* The filter fields the request carries.
SuppliedKeys == IF filterOptions.hasFilters THEN DOMAIN filterOptions.filters ELSE {}

\* The filter fields the request carries with a value that is not empty.
NonEmptyKeys ==
    { k \in SuppliedKeys :
        IF k = "tags" THEN filterOptions.filters[k] # {} ELSE filterOptions.filters[k] # "" }

SatisfiesFilter(meta, k) ==
    IF k = "tags" THEN meta.tags \cap filterOptions.filters[k] # {}
    ELSE meta[k] = filterOptions.filters[k]

\* C24 as stated: semanticSearch returns at most limit results (10 when
\* limit is omitted), every returned chunk satisfies every supplied filter
\* (equal fileType, category, userId; a tag in common with tags), and no
\* where clause is sent when no filter field is supplied.
C24_FiltersHonoured ==
    filterCall.kind = "search" =>
        /\ Len(filterCall.results) <= RequestedLimit
        /\ \A i \in 1..Len(filterCall.results) :
              \A k \in SuppliedKeys : SatisfiesFilter(filterCall.results[i], k)
        /\ SuppliedKeys = {} => ~filterCall.whereDefined

\* C24 amended: the same for every supplied filter whose value is not
\* empty; a fileType of '' and an empty tags list are not filtered on, and
\* no where clause is sent when no filter field has a non-empty value.
C24_NonEmptyFiltersHonoured ==
    filterCall.kind = "search" =>
        /\ Len(filterCall.results) <= RequestedLimit
        /\ filterCall.whereKeys = NonEmptyKeys
        /\ \A i \in 1..Len(filterCall.results) :
              \A k \in NonEmptyKeys : SatisfiesFilter(filterCall.results[i], k)
        /\ NonEmptyKeys = {} => ~filterCall.whereDefined

\* All four filters were supplied, the collection held a chunk that fails
\* one of them, and the chunk that passes them was returned.
C24_Witness ==
    /\ filterCall.kind = "search"
    /\ NonEmptyKeys = FilterKeys
    /\ Len(filterStore) = 2
    /\ Len(filterCall.results) = 1

\* The limit was omitted on a collection of 11 chunks and 10 came back.
C24_WitnessDefaultLimit ==
    /\ filterCall.kind = "search"
    /\ filterOptions.limit = Undefined
    /\ Len(filterStore) = 11
    /\ Len(filterCall.results) = 10

\* C25: when analyzeDocument is called with a documentId, every source
\* chunk of the returned response belongs to that document.
C25_AnalyzeOnlyOwnDocument ==
    (filterCall.kind = "analyze" /\ filterCall.documentId # Undefined) =>
        \A i \in 1..Len(filterCall.sources) :
            filterCall.sources[i].documentId = filterCall.documentId

\* ------------------------------------------------------------------------
\* Properties of the answers with no source
\* ------------------------------------------------------------------------
\* C26: a returned answer for which the text-generation service was called
\* has at least one source chunk in its context, and a returned answer
\* with no source has confidence 0.
C26_GenerationNeedsSources ==
    ragCall.status = "returned" =>
        /\ ragCall.claudeCalls > 0 => Len(ragCall.sources) >= 1
        /\ Len(ragCall.sources) = 0 => ragCall.confidence.num = 0

\* C27: analyzeDocument whose search returns nothing throws 'No relevant
\* content found for analysis' without a call of the text-generation
\* service, and no analyzeDocument call returns the canned answer.
C27_EmptyAnalysisThrows ==
    ragCall.kind = "analyze" =>
        /\ ~ragCall.canned
        /\ (ragCall.searchStatus = "ok" /\ Len(ragCall.searchResults) = 0) =>
              /\ ragCall.status = "throws"
              /\ ragCall.error = NoContentError
              /\ ragCall.claudeCalls = 0

\* The collection held chunks, none of them within the 0.6 threshold.
C27_Witness ==
    /\ ragCall.kind = "analyze"
    /\ isInitialized
    /\ storeNeighbors # <<>>
    /\ ragCall.searchStatus = "ok"
    /\ ragCall.status = "throws"
    /\ ragCall.error = NoContentError

\* ------------------------------------------------------------------------
\* Properties of processFile and uploadDocument
\* ------------------------------------------------------------------------
\* The category of the first rule, in the fixed priority order, one of
\* whose keywords the file name contains; general when there is none.
PriorityOrder ==
    << "financial_statement", "investment_report", "market_research", "business_plan",
       "transaction_record", "regulatory_doc" >>

RuleMatches(i) == CategoryRules[i].keywords \cap uploadReq.keywords # {}

ExpectedCategory ==
    IF \E i \in 1..Len(PriorityOrder) : RuleMatches(i)
    THEN PriorityOrder[CHOOSE i \in 1..Len(PriorityOrder) :
                           RuleMatches(i) /\ \A j \in 1..(i - 1) : ~RuleMatches(j)]
    ELSE "general"

\* C28: when the caller supplies no category, the metadata processFile
\* returns carries the category of the first matching keyword rule, and
\* tags default to the empty list when none are supplied; a supplied
\* category overrides the determined one.
C28_CategoryDefaulted ==
    fileOut.returned =>
        /\ \A i \in 1..Len(PriorityOrder) : CategoryRules[i].category = PriorityOrder[i]
        /\ uploadReq.category.state = "absent" =>
              (fileOut.category.defined /\ fileOut.category.value = ExpectedCategory)
        /\ uploadReq.category.state = "value" =>
              (fileOut.category.defined /\ fileOut.category.value = uploadReq.category.value)
        /\ uploadReq.tags.state = "absent" =>
              (fileOut.tags.defined /\ fileOut.tags.value = {})

\* C29: when an upload request has completed and its file was staged, the
\* staged file is gone, whether the request returned a result or an error
\* (an unlink that itself fails apart); a file rejected by validateFile
\* was never staged.
C29_StagedFileDeleted ==
    uploadPc = "done" =>
        /\ (uploadOut.saved /\ ~uploadOut.unlinkFailed) => staging = {}
        /\ uploadOut.rejected => (~uploadOut.saved /\ staging = {})

\* ------------------------------------------------------------------------
\* Properties of the initialization flag
\* ------------------------------------------------------------------------
\* C30: in every state isInitialized implies that the collection handle
\* and the tokenizer are set; the flag is true only after an
\* initialization in which no step failed, and a failure in any step
\* leaves it false.
C30_InitializedImpliesHandles ==
    /\ isInitialized =>
          /\ initState.pc = "started"
          /\ initState.failure = "none"
          /\ initState.clientSet
          /\ initState.tokenizerSet
          /\ initState.collectionSet
    /\ (initState.pc = "started" /\ initState.failure # "none") => ~isInitialized
    /\ initState.pc = "constructed" => ~isInitialized

\* The initialization went through and the service answered a stats
\* request from the collection.
C30_Witness ==
    /\ isInitialized
    /\ initState.collectionSet
    /\ initState.tokenizerSet
    /\ lastOp.op = "stats"
    /\ lastOp.statsInitialized
    /\ lastOp.totalDocuments = 7

\* The tokenizer was set, the collection could not be opened, and the flag
\* is false.
C30_WitnessFailed ==
    /\ initState.pc = "started"
    /\ initState.failure = "collection"
    /\ initState.tokenizerSet
    /\ ~initState.collectionSet
    /\ ~isInitialized

====
